---------------------------- MODULE Spec2Model ----------------------------
(***************************************************************************)
(* A model of the sab2html package: the byte stream (stream.py), the SAB   *)
(* reader (sab_reader.py, sab_types.py, genera_charset.py), the binary     *)
(* graphics decoder (binary_graphics.py), the cross-reference registry     *)
(* (cross_references.py), the paragraph fix-up and slug rule               *)
(* (html_renderer.py) and the site driver (site_generator.py).             *)
(*                                                                         *)
(* Conventions.  A Python bytes object is a sequence of integers 0..255; a *)
(* Python str is a sequence of code points.  A Python value is a record    *)
(* of one field named after its type.  A call that can raise returns a     *)
(* record                                                                  *)
(* with ok = FALSE and the exception in err.  Stream offsets are the       *)
(* 0-based offsets of the code; sequences are 1-based, so byte i of the    *)
(* code is d[i + 1].                                                       *)
(***************************************************************************)
EXTENDS Integers, Sequences, FiniteSets, TLC

VARIABLES
    \* stream.py: one SabStream object and the last call made on it
    data, offset, last,
    \* sab_reader.py: a file's bytes, and a run of read_sab and of
    \* read_sab_index_only on it
    file, reader,
    \* site_generator.py: the archive directory (relative path -> bytes),
    \* the registry of pass 1, the locals of generate_site, and the output
    \* directory (path -> page, with the log of the writes made)
    dir, registry, site, output,
    \* html_renderer.py: a name, its slug and the slug of that slug
    slug,
    \* binary_graphics.py: a call of binary_decode_graphics
    gfx,
    \* html_renderer.py: a call of _fix_up_special_markup
    markup,
    \* genera_charset.py: a call of _recode_and_expand
    recode,
    \* _resolve_href: the registry and the latest reference resolved
    resolve,
    \* _com_keyword: the stream of one call and what the call returned
    keyword,
    \* get_html_path: the relative path of one call and what it returned
    htmlpath,
    \* _render_content_list over a processed list with pictures: the loop's position and parts
    picture,
    \* read_field_alist and read_index_item: the bytes of one call and its result
    field,
    \* symbol definitions: the things of one section, the stream, the table and the latest thing read
    symdef,
    \* read_fat_string: the bytes of one fat string and the result of reading it
    fat,
    \* read_extensible_reference_take_two: the bytes of one reference and the result of reading it
    takeTwo,
    \* SpecCallee: the items of one file and the registry scan_file leaves
    callee,
    \* SpecNextValue: the stream given to _next_value and what it returned
    nextValue,
    \* SpecRaster: one raster-image command and what decoding it returned
    raster,
    \* SpecSvg: the form list given to render_picture_to_svg and its rendering
    drawing,
    \* SpecPage: the records and the index given to render_records_to_html and the parts it rendered
    assoc

vars ==
    <<data, offset, last, file, reader, dir, registry, site, output,
      slug, gfx, markup, recode, resolve, keyword, htmlpath, picture,
      field, symdef, fat, takeTwo, callee, nextValue, raster, drawing,
      assoc>>

(***************************************************************************)
(* Bounds of the model.                                                    *)
(***************************************************************************)
MaxStreamLen == 8      \* longest buffer of the byte-stream specification
MaxStreamArg == 3      \* largest read_bytes count / seek overshoot tried
MaxStreamOffset == 12  \* cursor values beyond this are not explored
MaxRecords == 2        \* most records in a generated SAB file
MaxCut == 5            \* longest truncated prefix of a SAB file tried
MaxFiles == 2          \* most files in the archive directory
MaxSlugLen == 4        \* longest name given to _slugify
MaxGfxPieces == 4      \* most pieces in a generated picture
MaxMarkupLen == 4      \* longest content list given to the fix-up
MaxTextLen == 5        \* longest text given to _recode_and_expand
MaxRegistered == 2     \* most index items registered before references resolve
MaxPathPieces == 4     \* most pieces in a path given to get_html_path
MaxContents == 3       \* most items in a content list with pictures
MaxFields == 2         \* most fields in a field-alist or index-item
MaxThings == 3         \* most things in a run of symbol definitions
MaxChunks == 2         \* most chunks in the payload of a fat string
MaxItems == 2
MaxValuePieces == 3
MaxPayload == 17
MaxForms == 3
MaxPageRecords == 3
MaxIndexItems == 3

(***************************************************************************)
(* Generic helpers.                                                        *)
(***************************************************************************)
Min(a, b) == IF a < b THEN a ELSE b
Max(a, b) == IF a > b THEN a ELSE b

\* All sequences over S of length 0..n.
SeqsUpTo(S, n) == UNION {[1..k -> S] : k \in 0..n}

\* The concatenation of a sequence of sequences.
RECURSIVE Flatten(_)
Flatten(ss) == IF ss = <<>> THEN <<>> ELSE Head(ss) \o Flatten(Tail(ss))

\* A slice bound as Python normalises it: a negative bound counts from the
\* end, and the result is clamped to the buffer.
SliceBound(d, i) == IF i < 0 THEN Max(i + Len(d), 0) ELSE Min(i, Len(d))

\* Python slice d[a:b].
Slice(d, a, b) ==
    IF SliceBound(d, b) <= SliceBound(d, a) THEN <<>>
    ELSE SubSeq(d, SliceBound(d, a) + 1, SliceBound(d, b))

\* The position d[i] indexes: a negative index counts from the end.
IndexOfItem(d, i) == IF i < 0 THEN i + Len(d) ELSE i

\* Little-endian unsigned value of a byte sequence.
RECURSIVE LittleEndian(_)
LittleEndian(bs) ==
    IF bs = <<>> THEN 0 ELSE Head(bs) + 256 * LittleEndian(Tail(bs))

(***************************************************************************)
(* stream.py -- SabStream.  Each operator is one method applied to the     *)
(* buffer d with the cursor at off; the result carries the new cursor.     *)
(* struct.unpack_from raises struct.error, and indexing raises IndexError, *)
(* before the cursor is advanced.                                          *)
(***************************************************************************)
StreamRaise(off, e) == [ok |-> FALSE, val |-> 0, off |-> off, err |-> e]
StreamOk(v, off) == [ok |-> TRUE, val |-> v, off |-> off, err |-> "none"]

\* struct.unpack_from(fmt, data, offset) for a format of `size` bytes: the
\* bytes of the value, or struct.error when fewer than `size` bytes remain.
unpack_from(d, off, size) ==
    IF IndexOfItem(d, off) < 0 \/ Len(d) - IndexOfItem(d, off) < size
    THEN StreamRaise(off, "struct.error")
    ELSE StreamOk(SubSeq(d, IndexOfItem(d, off) + 1, IndexOfItem(d, off) + size),
                  off + size)

\* The integer formats '<H' and '<I'.  (TLC's integers are 32-bit: the
\* buffers of the model keep the top byte of a u32 below 128.)
unpack_uint(d, off, size) ==
    LET r == unpack_from(d, off, size)
    IN  IF r.ok THEN StreamOk(LittleEndian(r.val), r.off) ELSE r

read_u8(d, off) ==
    IF 0 <= IndexOfItem(d, off) /\ IndexOfItem(d, off) < Len(d)
    THEN StreamOk(d[IndexOfItem(d, off) + 1], off + 1)
    ELSE StreamRaise(off, "IndexError")

read_u16_le(d, off) == unpack_uint(d, off, 2)

read_u32_le(d, off) == unpack_uint(d, off, 4)

\* The float reads return the IEEE-754 bit pattern as its bytes: the model
\* does not interpret floating-point values.
read_float_le(d, off) == unpack_from(d, off, 4)

read_double_le(d, off) == unpack_from(d, off, 8)

\* read_bytes never raises: the slice is clamped, the cursor is not.
read_bytes(d, off, n) == StreamOk(Slice(d, off, off + n), off + n)

seek(d, off, position) == StreamOk(0, position)

peek(d, off) ==
    IF 0 <= IndexOfItem(d, off) /\ IndexOfItem(d, off) < Len(d)
    THEN StreamOk(d[IndexOfItem(d, off) + 1], off)
    ELSE StreamRaise(off, "IndexError")

eof(d, off) == off >= Len(d)

(***************************************************************************)
(* Python values.  A value is a record with one field, named after its     *)
(* type, holding its payload: "str" (code points), "int", "bytes", "list"  *)
(* and "tuple" (sequences of values), "None", and one type per dataclass   *)
(* of sab_types.py, whose payload is the tuple of its fields in            *)
(* declaration order.  Values of different types are thus unequal records, *)
(* and == of Python is = here.                                             *)
(***************************************************************************)
Val(t, v) == [type \in {t} |-> v]

TypeOf(value) == CHOOSE type \in DOMAIN value : TRUE

Payload(value) == value[TypeOf(value)]

PyNone == Val("None", 0)

\* The text of a literal, as code points.  Only the characters the model's
\* literals use are listed.
Ord(ch) ==
    CASE ch = " " -> 32 [] ch = "#" -> 35 [] ch = "*" -> 42 [] ch = "+" -> 43
      [] ch = "-" -> 45 [] ch = "." -> 46 [] ch = "/" -> 47 [] ch = "0" -> 48
      [] ch = "1" -> 49 [] ch = "2" -> 50 [] ch = ":" -> 58 [] ch = "A" -> 65
      [] ch = "B" -> 66 [] ch = "F" -> 70
      [] ch = "P" -> 80 [] ch = "X" -> 88 [] ch = "_" -> 95 [] ch = "a" -> 97
      [] ch = "b" -> 98 [] ch = "c" -> 99 [] ch = "d" -> 100 [] ch = "e" -> 101
      [] ch = "f" -> 102 [] ch = "g" -> 103 [] ch = "h" -> 104 [] ch = "i" -> 105
      [] ch = "j" -> 106 [] ch = "k" -> 107 [] ch = "l" -> 108 [] ch = "m" -> 109
      [] ch = "n" -> 110 [] ch = "o" -> 111 [] ch = "p" -> 112 [] ch = "q" -> 113
      [] ch = "r" -> 114 [] ch = "s" -> 115 [] ch = "t" -> 116 [] ch = "u" -> 117
      [] ch = "v" -> 118 [] ch = "w" -> 119 [] ch = "x" -> 120 [] ch = "y" -> 121
      [] ch = "z" -> 122 [] ch = "~" -> 126

\* A literal written as a tuple of one-character strings.
Lit(chars) == [i \in DOMAIN chars |-> Ord(chars[i])]

\* str.lower() on code points below 256 (ASCII and Latin-1 capitals).
Lower(s) ==
    [i \in DOMAIN s |->
        IF \/ (65 <= s[i] /\ s[i] <= 90)
           \/ (192 <= s[i] /\ s[i] <= 222 /\ s[i] # 215)
        THEN s[i] + 32 ELSE s[i]]

\* str.upper() on the code points below 256 whose upper-case form is one
\* code point below 256 (all but 181, 223 and 255).
Upper(s) ==
    [i \in DOMAIN s |->
        IF \/ (97 <= s[i] /\ s[i] <= 122)
           \/ (224 <= s[i] /\ s[i] <= 254 /\ s[i] # 247)
        THEN s[i] - 32 ELSE s[i]]

\* str.replace(old, new): leftmost non-overlapping occurrences, old non-empty.
RECURSIVE str_replace(_, _, _)
str_replace(s, old, new) ==
    IF Len(s) < Len(old) THEN s
    ELSE IF SubSeq(s, 1, Len(old)) = old
         THEN new \o str_replace(SubSeq(s, Len(old) + 1, Len(s)), old, new)
         ELSE <<Head(s)>> \o str_replace(Tail(s), old, new)

(***************************************************************************)
(* genera_charset.py                                                       *)
(***************************************************************************)
PARAGRAPH_MARKER == 57344    \* U+E000
LINE_BREAK_MARKER == 57345   \* U+E001
_TAB_WIDTH == 8

\* GENERA_CHAR_MAP[code] is element code + 1.
GENERA_CHAR_MAP ==
    <<183, 8595, 945, 946, 8743, 172, 949, 960, 955, 947, 948, 8593, 177,
      8853, 8734, 8706, 8834, 8835, 8746, 8745, 8704, 8707, 8855, 8646,
      8592, 8594, 8800, 8900, 8804, 8805, 8801, 8744>>

_C1_STRIP == ((127..140) \cup (142..159)) \ {137}

\* One iteration of the loop of _recode_and_expand, were the dropped C1
\* characters counted in the column.
recode_char_counting_dropped(code, col) ==
    IF code = 137
    THEN [out |-> [k \in 1..(_TAB_WIDTH - (col % _TAB_WIDTH)) |-> 32],
          col |-> col + (_TAB_WIDTH - (col % _TAB_WIDTH))]
    ELSE IF code \in 0..31
    THEN [out |-> <<GENERA_CHAR_MAP[code + 1]>>, col |-> col + 1]
    ELSE IF code \in _C1_STRIP THEN [out |-> <<>>, col |-> col + 1]
    ELSE IF code \in {LINE_BREAK_MARKER, 10, PARAGRAPH_MARKER}
    THEN [out |-> <<code>>, col |-> 0]
    ELSE [out |-> <<code>>, col |-> col + 1]

\* One iteration of the loop of _recode_and_expand on the character `code`
\* with the column col: what is appended to out, and the new column.
recode_char(code, col) ==
    IF code = 137
    THEN [out |-> [k \in 1..(_TAB_WIDTH - (col % _TAB_WIDTH)) |-> 32],
          col |-> col + (_TAB_WIDTH - (col % _TAB_WIDTH))]
    ELSE IF code \in 0..31
    THEN [out |-> <<GENERA_CHAR_MAP[code + 1]>>, col |-> col + 1]
    ELSE IF code \in _C1_STRIP THEN [out |-> <<>>, col |-> col]
    ELSE IF code \in {LINE_BREAK_MARKER, 10, PARAGRAPH_MARKER}
    THEN [out |-> <<code>>, col |-> 0]
    ELSE [out |-> <<code>>, col |-> col + 1]

\* The loop of _recode_and_expand over result[i..], with the column col.
RECURSIVE recode_loop(_, _, _)
recode_rest(result, i, step) == step.out \o recode_loop(result, i + 1, step.col)

recode_loop(result, i, col) ==
    IF i > Len(result) THEN <<>>
    ELSE recode_rest(result, i, recode_char(result[i], col))

\* The two str.replace calls at the head of _recode_and_expand.
recode_breaks(text) ==
    str_replace(str_replace(text, <<141, 141>>, <<PARAGRAPH_MARKER>>),
                <<141>>, <<LINE_BREAK_MARKER>>)

\* recode_genera_characters and recode_genera_long_string both return this.
_recode_and_expand(text) == recode_loop(recode_breaks(text), 1, 0)

\* _recode_and_expand(text) before its first statement.
recode_start(text) ==
    [pc |-> "replace", text |-> text, result |-> <<>>, i |-> 1, col |-> 0,
     out |-> <<>>, last |-> [code |-> -1, col |-> 0, out |-> <<>>]]

(***************************************************************************)
(* sab_types.py                                                            *)
(***************************************************************************)
NUM_SAB_CODES == 46

LISP_NIL_SYMBOLS ==
    {Lit(<<"l","i","s","p",":","n","i","l">>),
     Lit(<<"c","o","m","m","o","n","-","l","i","s","p",":","n","i","l">>)}

\* FIELD_NAME_TO_SAB_CODE as a set of <<field name, SAB code>> pairs.
FIELD_NAME_TO_SAB_CODE ==
    {<<Lit(<<"u","n","i","q","u","e","-","i","d">>), 35>>,
     <<Lit(<<"v","e","r","s","i","o","n","-","n","u","m","b","e","r">>), 10>>,
     <<Lit(<<"f","l","a","g","s">>), 10>>,
     <<Lit(<<"l","o","c","a","t","i","o","n">>), 27>>,
     <<Lit(<<"t","o","k","e","n","s">>), 37>>,
     <<Lit(<<"k","e","y","w","o","r","d","s">>), 9>>,
     <<Lit(<<"c","a","l","l","e","e","-","l","i","s","t">>), 39>>,
     <<Lit(<<"s","o","u","r","c","e","-","t","o","p","i","c">>), 9>>,
     <<Lit(<<"f","i","l","e","-","a","t","t","r","i","b","u","t","e","-",
             "s","t","r","i","n","g">>), 38>>,
     <<Lit(<<"c","o","n","t","e","n","t","s">>), 9>>,
     <<Lit(<<"a","r","g","l","i","s","t">>), 9>>,
     <<Lit(<<"s","y","m","b","o","l","i","c","s","-","c","o","m","m","o","n",
             "-","l","i","s","p",":","a","r","g","l","i","s","t">>), 9>>,
     <<Lit(<<"m","o","d","i","f","i","c","a","t","i","o","n","-","h","i","s",
             "t","o","r","y">>), 36>>,
     <<Lit(<<"s","o","u","r","c","e","-","t","i","t","l","e">>), 9>>,
     <<Lit(<<"o","n","e","l","i","n","e","r">>), 9>>,
     <<Lit(<<"r","e","l","a","t","e","d">>), 9>>,
     <<Lit(<<"r","e","l","e","a","s","e","n","u","m","b","e","r">>), 9>>,
     <<Lit(<<"a","b","b","r","e","v">>), 9>>,
     <<Lit(<<"n","o","t","e","s">>), 9>>,
     <<Lit(<<"g","l","o","s","s","a","r","y">>), 9>>,
     <<Lit(<<"p","a","t","c","h","e","d","-","f","r","o","m">>), 11>>,
     <<Lit(<<"u","n","i","q","u","e","-","i","n","d","e","x">>), 10>>}

\* hash(value) is defined: lists and the (eq, non-frozen) dataclasses are
\* unhashable, a tuple is hashable when its elements are.
RECURSIVE Hashable(_)
Hashable(x) ==
    CASE TypeOf(x) \in {"str", "int", "bytes", "None"} -> TRUE
      [] TypeOf(x) = "tuple" ->
            \A i \in DOMAIN Payload(x) : Hashable(Payload(x)[i])
      [] OTHER -> FALSE

\* A table that still holds a symbol of another section (not the code's).
SymbolTable_stale == [symbols |-> <<Lit(<<"a">>)>>, trace |-> <<>>]

\* A symbol table: SymbolTable.symbols, and beside it the trace of the
\* definitions and references made through it (kept for the properties; the
\* code keeps no such trace).
SymbolTable == [symbols |-> <<>>, trace |-> <<>>]

SymbolTable_add(table, sym) ==
    [symbols |-> Append(table.symbols, sym),
     trace |-> Append(table.trace,
                      [e |-> "def", i |-> Len(table.symbols), s |-> sym,
                       ok |-> TRUE])]

\* self.symbols[index]: the index is a u16, so never negative.
SymbolTable_get(table, index) ==
    IF index < Len(table.symbols)
    THEN [ok |-> TRUE, val |-> table.symbols[index + 1]]
    ELSE [ok |-> FALSE, val |-> <<>>]

(***************************************************************************)
(* sab_reader.py -- the readers.  A reader applied to the buffer d at      *)
(* offset off with the symbol table tbl returns [ok, val, off, tbl, err].  *)
(* A required type of -1 stands for None (any code).                       *)
(***************************************************************************)
Ret(v, off, tbl) ==
    [ok |-> TRUE, val |-> v, off |-> off, tbl |-> tbl, err |-> "none"]

Raise(e, off, tbl) ==
    [ok |-> FALSE, val |-> PyNone, off |-> off, tbl |-> tbl, err |-> e]

\* A stream call inside a reader: its value, or its exception.
FromStream(r, tbl) ==
    IF r.ok THEN Ret(r.val, r.off, tbl) ELSE Raise(r.err, r.off, tbl)

_is_nil(value) == TypeOf(value) = "str" /\ Payload(value) \in LISP_NIL_SYMBOLS

\* The elements of vals taken k at a time, as tuples.
TuplesOf(vals, k) ==
    [i \in 1..(Len(vals) \div k) |->
        Val("tuple", SubSeq(vals, (i - 1) * k + 1, i * k))]

\* r, or what K makes of it when r did not raise.  (The readers are written
\* with Then so that each call appears once in the text.)
Then(r, K(_)) == IF r.ok THEN K(r) ELSE r

RECURSIVE read_sab_thing(_, _, _, _)
RECURSIVE read_things(_, _, _, _, _, _)

\* n consecutive read_sab_thing calls, the i-th with the required type
\* pattern[i] (the pattern repeats); acc holds the values read so far.
read_things(d, off, tbl, pattern, n, acc) ==
    IF Len(acc) >= n THEN Ret(acc, off, tbl)
    ELSE Then(read_sab_thing(d, off, tbl,
                             pattern[(Len(acc) % Len(pattern)) + 1]),
              LAMBDA r : read_things(d, r.off, r.tbl, pattern, n,
                                     Append(acc, r.val)))

read_sab_string(d, off, tbl) ==
    Then(FromStream(peek(d, off), tbl),
         LAMBDA c : IF c.val \in {11, 12}
                    THEN read_sab_thing(d, off, tbl, c.val)
                    ELSE Raise("ValueError: Wanted to read a string", off, tbl))

_read_sab_symbol(d, off, tbl, prefix) ==
    Then(read_sab_string(d, off, tbl),
         LAMBDA name :
             LET sym == prefix \o Lower(Payload(name.val))
             IN  Ret(Val("str", sym), name.off, SymbolTable_add(name.tbl, sym)))

\* A dataclass (or tuple) built from the things read under `pattern`.
read_struct(d, off, tbl, tag, pattern) ==
    Then(read_things(d, off, tbl, pattern, Len(pattern), <<>>),
         LAMBDA r : Ret(Val(tag, r.val), r.off, r.tbl))

\* The readers that return their one child: type-symbol (1), envr-name (6),
\* attribute-name (8), simple-command-name (22), command-name (23),
\* macro-name (25), macro-arglist (26), file-attribute-alist (31),
\* unique-id (35), modification-history (36), token-list (37).
read_child(d, off, tbl) == read_sab_thing(d, off, tbl, -1)

read_function_spec(d, off, tbl) ==
    Then(read_sab_string(d, off, tbl),
         LAMBDA name :
             Ret(Val("SageFunctionSpec", <<name.val>>), name.off, name.tbl))

read_field_name(d, off, tbl) ==
    Then(read_sab_thing(d, off, tbl, -1),
         LAMBDA r :
             LET lookup_name ==
                     IF TypeOf(r.val) = "str"
                     THEN Val("str", Lower(Payload(r.val)))
                     ELSE r.val
                 codes == {p \in FIELD_NAME_TO_SAB_CODE :
                              /\ TypeOf(lookup_name) = "str"
                              /\ p[1] = Payload(lookup_name)}
             IN  IF ~Hashable(lookup_name)
                 THEN Raise("TypeError: unhashable type", r.off, r.tbl)
                 ELSE IF codes = {}
                 THEN Raise("ValueError: Not a valid field name", r.off, r.tbl)
                 ELSE Ret(Val("tuple",
                              <<lookup_name,
                                Val("int", (CHOOSE p \in codes : TRUE)[2])>>),
                          r.off, r.tbl))

\* The loop reading each value under no required code.
RECURSIVE read_fields_any_code(_, _, _, _, _)
read_fields_any_code(d, off, tbl, n, acc) ==
    IF Len(acc) >= n THEN Ret(Val("list", acc), off, tbl)
    ELSE Then(read_sab_thing(d, off, tbl, 4),
              LAMBDA f :
                  Then(read_sab_thing(d, f.off, f.tbl, -1),
                       LAMBDA value :
                           read_fields_any_code(d, value.off, value.tbl, n,
                               Append(acc, Val("tuple",
                                               <<Payload(f.val)[1], value.val>>)))))

\* The loop of read_field_alist and of read_index_item: n times a field
\* name (code 4) and a value of the code the field name declares.
RECURSIVE read_fields(_, _, _, _, _)
read_fields(d, off, tbl, n, acc) ==
    IF Len(acc) >= n THEN Ret(Val("list", acc), off, tbl)
    ELSE Then(read_sab_thing(d, off, tbl, 4),
              LAMBDA f :
                  Then(read_sab_thing(d, f.off, f.tbl,
                                      Payload(Payload(f.val)[2])),
                       LAMBDA value :
                           read_fields(d, value.off, value.tbl, n,
                               Append(acc, Val("tuple",
                                               <<Payload(f.val)[1], value.val>>)))))

read_field_alist(d, off, tbl) ==
    Then(FromStream(read_u16_le(d, off), tbl),
         LAMBDA n : read_fields(d, n.off, tbl, n.val, <<>>))

\* A u16 (width 2) or u32 (width 4) count, then count times the things of
\* `pattern`, grouped into tuples when the pattern has several things:
\* envr-mods (7), contents-list (9), list (13), index (28),
\* callee-triple-list (29), callee-4ple-list (39).
read_counted(d, off, tbl, width, pattern) ==
    Then(FromStream(unpack_uint(d, off, width), tbl),
         LAMBDA n :
             Then(read_things(d, n.off, tbl, pattern,
                              n.val * Len(pattern), <<>>),
                  LAMBDA r :
                      Ret(Val("list", IF Len(pattern) = 1 THEN r.val
                                      ELSE TuplesOf(r.val, Len(pattern))),
                          r.off, r.tbl)))

read_fixnum(d, off, tbl) ==
    Then(FromStream(read_u32_le(d, off), tbl),
         LAMBDA r : Ret(Val("int", r.val), r.off, tbl))

\* read_string (width 1) and read_long_string (width 4): a size, the bytes
\* (latin-1), recoded.
read_string(d, off, tbl, width) ==
    Then(FromStream(IF width = 1 THEN read_u8(d, off) ELSE read_u32_le(d, off),
                    tbl),
         LAMBDA size :
             Ret(Val("str", _recode_and_expand(
                                read_bytes(d, size.off, size.val).val)),
                 size.off + size.val, tbl))

read_symbol_ref(d, off, tbl) ==
    Then(FromStream(read_u16_le(d, off), tbl),
         LAMBDA index :
             LET got == SymbolTable_get(tbl, index.val)
                 seen == [tbl EXCEPT !.trace =
                             Append(@, [e |-> "ref", i |-> index.val,
                                        s |-> got.val, ok |-> got.ok])]
             IN  IF got.ok THEN Ret(Val("str", got.val), index.off, seen)
                 ELSE Raise("IndexError", index.off, seen))

read_pkg_symbol_def(d, off, tbl) ==
    Then(read_sab_string(d, off, tbl),
         LAMBDA pkg : _read_sab_symbol(d, pkg.off, pkg.tbl,
                                       Payload(pkg.val) \o Lit(<<":">>)))

\* parse_sexpr is not interpreted: the value stands for the parse of s.
read_read_from_string(d, off, tbl) ==
    Then(read_sab_string(d, off, tbl),
         LAMBDA s : Ret(Val("sexpr", Payload(s.val)), s.off, s.tbl))

read_simple_command(d, off, tbl) ==
    Then(read_sab_thing(d, off, tbl, 22),
         LAMBDA name :
             Ret(Val("SageCommand", <<name.val, PyNone>>), name.off, name.tbl))

\* value, or [] when value is a Lisp nil symbol.
nil_to_list(value) == IF _is_nil(value) THEN Val("list", <<>>) ELSE value

read_command(d, off, tbl) ==
    Then(read_things(d, off, tbl, <<23, -1>>, 2, <<>>),
         LAMBDA r : Ret(Val("SageCommand", <<r.val[1], nil_to_list(r.val[2])>>),
                        r.off, r.tbl))

read_index_item(d, off, tbl) ==
    Then(read_things(d, off, tbl, <<-1, 1>>, 2, <<>>),
         LAMBDA head :
             Then(FromStream(read_u16_le(d, head.off), head.tbl),
                  LAMBDA n :
                      Then(read_fields(d, n.off, head.tbl, n.val, <<>>),
                           LAMBDA fields :
                               Ret(Val("tuple", <<head.val[1], head.val[2],
                                                  fields.val>>),
                                   fields.off, fields.tbl))))

\* read_reference (33); read_extensible_reference (43) calls it.
read_reference(d, off, tbl) ==
    Then(read_things(d, off, tbl, <<-1, 1, -1, -1, -1>>, 5, <<>>),
         LAMBDA r :
             Ret(Val("SageReference",
                     <<r.val[1], r.val[2], r.val[3], r.val[4], PyNone,
                       Val("list", <<>>), nil_to_list(r.val[5])>>),
                 r.off, r.tbl))

read_extensible_reference_take_two(d, off, tbl) ==
    Then(read_things(d, off, tbl, <<-1, 1, -1, -1, -1, -1, -1>>, 7, <<>>),
         LAMBDA r :
             Ret(Val("SageReference",
                     <<r.val[1], r.val[2], r.val[3], r.val[4], r.val[5],
                       nil_to_list(r.val[6]), nil_to_list(r.val[7])>>),
                 r.off, r.tbl))

\* n read_u8 calls, as a list.
RECURSIVE read_u8s(_, _, _)
read_u8s(d, off, n) ==
    IF n = 0 THEN StreamOk(<<>>, off)
    ELSE Then(read_u8(d, off),
              LAMBDA b : Then(read_u8s(d, b.off, n - 1),
                              LAMBDA r : StreamOk(<<b.val>> \o r.val, r.off)))

\* x_len = stream.read_u8(); stream.read_bytes(x_len)
skip_counted(d, off) ==
    Then(read_u8(d, off), LAMBDA n : read_bytes(d, n.off, n.val))

\* stream.read_u8() that must be one of `allowed`.
expect_u8(d, off, allowed, message) ==
    Then(read_u8(d, off),
         LAMBDA b : IF b.val \in allowed THEN b
                    ELSE StreamRaise(b.off, message))

\* read_fat_string from the type byte to the trailing zero byte.
fat_string_font(d, off) ==
    Then(Then(read_u8(d, off),
              LAMBDA type_byte :
                  IF type_byte.val = 12
                  THEN Then(skip_counted(d, type_byte.off),
                            LAMBDA fst :
                                Then(skip_counted(d, fst.off),
                                     LAMBDA snd :
                                         expect_u8(d, snd.off, {16},
                                             "ValueError: Expected 0x10 in fat string")))
                  ELSE IF type_byte.val = 20
                  THEN Then(skip_counted(d, type_byte.off),
                            LAMBDA style :
                                Then(expect_u8(d, style.off, {16, 20},
                                         "ValueError: Expected 0x10 or 0x14 in fat string"),
                                     LAMBDA next_byte :
                                         IF next_byte.val = 20
                                         THEN skip_counted(d, next_byte.off)
                                         ELSE next_byte))
                  ELSE StreamRaise(type_byte.off,
                                   "ValueError: Unknown fat string type code")),
         LAMBDA styled :
             Then(skip_counted(d, styled.off),
                  LAMBDA font :
                      expect_u8(d, font.off, {0},
                                "ValueError: Expected 0x00 in fat string")))

\* The chunk loop of read_fat_string.
RECURSIVE fat_string_chunks(_, _, _, _)
fat_string_chunks(d, off, total_len, result) ==
    IF Len(result) >= total_len THEN StreamOk(result, off)
    ELSE Then(read_u8(d, off),
              LAMBDA strlen :
                  Then(read_u8(d, strlen.off),
                       LAMBDA unknown :
                           fat_string_chunks(d, unknown.off + strlen.val,
                               total_len,
                               result \o read_bytes(d, unknown.off,
                                                    strlen.val).val)))

read_fat_string(d, off, tbl) ==
    Then(FromStream(
             Then(read_u8(d, off),
                  LAMBDA dimension_count :
                      Then(read_u8s(d, dimension_count.off, dimension_count.val),
                           LAMBDA dims :
                               Then(IF Len(dims.val) > 1 /\ dims.val[2] > 0
                                    THEN Then(read_u8s(d, dims.off, dims.val[2]),
                                              LAMBDA skipped :
                                                  fat_string_font(d, skipped.off))
                                    ELSE dims,
                                    LAMBDA font :
                                        fat_string_chunks(d, font.off,
                                            IF dims.val # <<>> THEN dims.val[1]
                                            ELSE 0,
                                            <<>>)))),
             tbl),
         LAMBDA text : Ret(Val("str", _recode_and_expand(text.val)),
                           text.off, tbl))

read_file_attribute_string(d, off, tbl) ==
    Then(read_sab_string(d, off, tbl),
         LAMBDA s : IF Payload(s.val) = <<>> THEN Ret(PyNone, s.off, s.tbl)
                    ELSE s)

read_picture(d, off, tbl) ==
    Then(read_things(d, off, tbl, <<-1, -1>>, 2, <<>>),
         LAMBDA head :
             Then(read_sab_string(d, head.off, head.tbl),
                  LAMBDA name :
                      Then(read_sab_thing(d, name.off, name.tbl, -1),
                           LAMBDA contents :
                               Ret(Val("SagePicture",
                                       <<head.val[1], head.val[2], name.val,
                                         contents.val>>),
                                   contents.off, contents.tbl))))

read_8_bit_array(d, off, tbl) ==
    Then(FromStream(read_u32_le(d, off), tbl),
         LAMBDA n : Ret(Val("bytes", read_bytes(d, n.off, n.val).val),
                        n.off + n.val, tbl))

\* The reader registered for each code (the _readers table).
read_sab_code(code, d, off, tbl) ==
    CASE code = 0 ->
            read_struct(d, off, tbl, "SageRecord", <<-1, 1, 3>>)
      [] code \in {1, 6, 8, 22, 23, 25, 26, 31, 35, 36, 37} ->
            read_child(d, off, tbl)
      [] code = 2 -> read_function_spec(d, off, tbl)
      [] code = 3 -> read_field_alist(d, off, tbl)
      [] code = 4 -> read_field_name(d, off, tbl)
      [] code = 5 -> read_struct(d, off, tbl, "SageEnvr", <<6, 7, 9>>)
      [] code = 7 -> read_counted(d, off, tbl, 2, <<8, -1>>)
      [] code \in {9, 13} -> read_counted(d, off, tbl, 2, <<-1>>)
      [] code = 10 -> read_fixnum(d, off, tbl)
      [] code = 11 -> read_string(d, off, tbl, 1)
      [] code = 12 -> read_string(d, off, tbl, 4)
      [] code = 14 -> read_symbol_ref(d, off, tbl)
      [] code = 15 ->
            _read_sab_symbol(d, off, tbl,
                Lit(<<"u","n","i","n","t","e","r","n","e","d",":">>))
      [] code = 16 -> _read_sab_symbol(d, off, tbl, <<>>)
      [] code = 17 -> read_pkg_symbol_def(d, off, tbl)
      [] code = 18 -> _read_sab_symbol(d, off, tbl, Lit(<<"d","o","c",":">>))
      [] code = 19 -> read_read_from_string(d, off, tbl)
      [] code = 20 -> read_simple_command(d, off, tbl)
      [] code = 21 -> read_command(d, off, tbl)
      [] code = 24 -> read_struct(d, off, tbl, "SageCommand", <<25, 26>>)
      [] code = 27 -> read_struct(d, off, tbl, "tuple", <<10, 10>>)
      [] code = 28 -> read_counted(d, off, tbl, 4, <<30>>)
      [] code = 29 -> read_counted(d, off, tbl, 2, <<-1, 1, -1>>)
      [] code = 30 -> read_index_item(d, off, tbl)
      [] code = 32 -> _read_sab_symbol(d, off, tbl, Lit(<<":">>))
      [] code \in {33, 43} -> read_reference(d, off, tbl)
      [] code = 34 -> read_fat_string(d, off, tbl)
      [] code = 38 -> read_file_attribute_string(d, off, tbl)
      [] code = 39 -> read_counted(d, off, tbl, 2, <<-1, 1, -1, -1>>)
      [] code = 40 -> read_picture(d, off, tbl)
      [] code = 41 -> read_8_bit_array(d, off, tbl)
      [] code = 42 ->
            read_struct(d, off, tbl, "SageExampleRecordMarker", <<-1, -1>>)
      [] code = 44 -> read_extensible_reference_take_two(d, off, tbl)
      [] code = 45 -> read_sab_string(d, off, tbl)

read_sab_thing(d, off, tbl, required_type) ==
    Then(FromStream(read_u8(d, off), tbl),
         LAMBDA code :
             IF required_type # -1 /\ code.val # required_type
             THEN Raise("ValueError: SAB code instead of the required one",
                        code.off, tbl)
             ELSE IF code.val >= NUM_SAB_CODES
             THEN Raise("ValueError: No SAB reader for code", code.off, tbl)
             ELSE read_sab_code(code.val, d, code.off, tbl))

\* A run of things, given by its parts and its bytes, before
\* read_sab_thing reads the first of them with an empty symbol table.
symdef_start(things, bytes) ==
    [pc |-> "loop", things |-> things, data |-> bytes, offset |-> 0,
     table |-> SymbolTable, n |-> 0, val |-> PyNone, before |-> <<>>]

\* A fat string, given by its parts and its bytes, before read_sab_thing
\* reads it.
fat_start(parts, bytes) ==
    [pc |-> "call", parts |-> parts, data |-> bytes,
     result |-> Ret(PyNone, 0, SymbolTable)]

\* An extensible-reference-take-two, given by the kinds of its seven
\* things and its bytes, before read_sab_thing reads it.
take_two_start(kinds, bytes) ==
    [pc |-> "call", kinds |-> kinds, data |-> bytes,
     result |-> Ret(PyNone, 0, SymbolTable)]

\* A field-alist or index-item, given by its fields and its bytes, before
\* read_sab_thing reads it.
field_start(fields, bytes) ==
    [pc |-> "call", fields |-> fields, data |-> bytes,
     result |-> Ret(PyNone, 0, SymbolTable)]

(***************************************************************************)
(* sab_reader.py -- read_sab and read_sab_index_only.  The two functions   *)
(* are the same code up to the section pointers; fn names the function.    *)
(* A run is a record: pc (where the function is), offset (stream.offset),  *)
(* the locals attrs, ps, pos, records and index, err (the exception that   *)
(* ended it) and, for the properties, one entry per section decoded        *)
(* (kind, start offset, outcome, symbol trace).                            *)
(***************************************************************************)
SAGE_ID_PATTERN == 0

\* A version set that also admits version 5 (not the code's).
COMPILED_DATA_FORMAT_VERSIONS_with_5 == {5, 7}

COMPILED_DATA_FORMAT_VERSIONS == {7}

sab_start ==
    [pc |-> "header", offset |-> 0, attrs |-> PyNone, ps |-> 0, pos |-> 0,
     records |-> <<>>, index |-> PyNone, err |-> "none", sections |-> <<>>]

sab_fail(st, e, off) == [st EXCEPT !.pc = "failed", !.err = e, !.offset = off]

\* One section decoded from offset `start` with a fresh SymbolTable().
sab_section(st, kind, start, r) ==
    [st EXCEPT !.sections =
        Append(@, [kind |-> kind, start |-> start, ok |-> r.ok,
                   trace |-> r.tbl.trace]),
               !.offset = r.off,
               !.pc = IF r.ok THEN st.pc ELSE "failed",
               !.err = r.err]

\* Read and validate the header.
sab_header(fn, d, st) ==
    LET id_pattern == read_u32_le(d, st.offset)
        version == read_u8(d, id_pattern.off)
    IN  IF ~id_pattern.ok THEN sab_fail(st, id_pattern.err, st.offset)
        ELSE IF id_pattern.val # SAGE_ID_PATTERN
        THEN sab_fail(st, IF fn = "read_sab"
                          THEN "ValueError: Not a SAB file (bad id pattern): "
                          ELSE "ValueError: Not a SAB file: ",
                      id_pattern.off)
        ELSE IF ~version.ok THEN sab_fail(st, version.err, id_pattern.off)
        ELSE IF version.val \notin COMPILED_DATA_FORMAT_VERSIONS
        THEN sab_fail(st, IF fn = "read_sab"
                          THEN "ValueError: Incompatible SAB version "
                          ELSE "ValueError: Incompatible SAB version: ",
                      version.off)
        ELSE [st EXCEPT !.pc = "attrs", !.offset = version.off]

\* Read the file attribute alist.
sab_attrs(d, st) ==
    LET r == read_sab_thing(d, st.offset, SymbolTable, 31)
        next == sab_section(st, "attrs", st.offset, r)
    IN  IF r.ok THEN [next EXCEPT !.pc = "pointers", !.attrs = r.val]
        ELSE next

\* Read the section pointers; read_sab then seeks to the records.
sab_pointers(fn, d, st) ==
    LET ps == read_u32_le(d, st.offset)
        pos == read_u32_le(d, ps.off)
    IN  IF ~ps.ok THEN sab_fail(st, ps.err, st.offset)
        ELSE IF ~pos.ok THEN sab_fail(st, pos.err, ps.off)
        ELSE IF fn = "read_sab"
        THEN [st EXCEPT !.ps = ps.val, !.pos = pos.val, !.pc = "records",
                        !.offset = seek(d, pos.off, ps.val).off]
        ELSE [st EXCEPT !.ps = ps.val, !.pos = pos.val, !.pc = "index",
                        !.offset = pos.off]

\* The iteration decoding at records-offset whatever the cursor (not the
\* code's).
sab_record_at_records_offset(d, st) ==
    LET r == read_sab_thing(d, st.ps, SymbolTable, -1)
        next == sab_section(st, "record", st.ps, r)
    IN  IF r.ok THEN [next EXCEPT !.records = Append(@, r.val)] ELSE next

\* One iteration of the record loop of read_sab (stream.offset < pos).
sab_record(d, st) ==
    LET r == read_sab_thing(d, st.offset, SymbolTable, -1)
        next == sab_section(st, "record", st.offset, r)
    IN  IF r.ok THEN [next EXCEPT !.records = Append(@, r.val)] ELSE next

\* Reading the index where the cursor happens to be (not the code's).
sab_index_without_seek(d, st) ==
    LET r == read_sab_thing(d, st.offset, SymbolTable, 28)
        next == sab_section(st, "index", st.offset, r)
    IN  IF r.ok THEN [next EXCEPT !.pc = "done", !.index = r.val] ELSE next

\* Seek to the index and read it.
sab_index(d, st) ==
    LET at == seek(d, st.offset, st.pos).off
        r == read_sab_thing(d, at, SymbolTable, 28)
        next == sab_section(st, "index", at, r)
    IN  IF r.ok THEN [next EXCEPT !.pc = "done", !.index = r.val] ELSE next

sab_step(fn, d, st) ==
    CASE st.pc = "header" -> sab_header(fn, d, st)
      [] st.pc = "attrs" -> sab_attrs(d, st)
      [] st.pc = "pointers" -> sab_pointers(fn, d, st)
      [] st.pc = "records" /\ st.offset < st.pos -> sab_record(d, st)
      [] st.pc = "records" /\ st.offset >= st.pos -> sab_index(d, st)
      [] st.pc = "index" -> sab_index(d, st)
      [] OTHER -> st

RECURSIVE sab_run(_, _, _)
sab_run(fn, d, st) ==
    IF st.pc \in {"done", "failed"} THEN st
    ELSE sab_run(fn, d, sab_step(fn, d, st))

\* read_sab(filename) on a file holding the bytes d.
read_sab(d) == sab_run("read_sab", d, sab_start)

\* read_sab_index_only(filename) on a file holding the bytes d.
read_sab_index_only(d) == sab_run("read_sab_index_only", d, sab_start)

(***************************************************************************)
(* cross_references.py -- RecordRegistry.  The registry is a record of its *)
(* five dicts, each a function from the keys present to their entries.     *)
(***************************************************************************)
\* s contains sub (Python's `sub in s` for strings).
Contains(s, sub) ==
    \E i \in 0..(Len(s) - Len(sub)) : SubSeq(s, i + 1, i + Len(sub)) = sub

\* s.rindex(sub), for an s that contains sub.
rindex(s, sub) ==
    CHOOSE i \in 0..(Len(s) - Len(sub)) :
        /\ SubSeq(s, i + 1, i + Len(sub)) = sub
        /\ \A j \in (i + 1)..(Len(s) - Len(sub)) :
               SubSeq(s, j + 1, j + Len(sub)) # sub

\* os.path.join(a, b) for a relative b, and os.path.relpath(path, base) for
\* a path below base.
os_path_join(a, b) == a \o Lit(<<"/">>) \o b

os_path_relpath(path, base) == SubSeq(path, Len(base) + 2, Len(path))

\* str(value): a str is itself; the text of any other value is not
\* interpreted.
py_str(value) == IF TypeOf(value) = "str" THEN value ELSE Val("repr", value)

\* bool(value)
py_truthy(value) ==
    CASE TypeOf(value) = "None" -> FALSE
      [] TypeOf(value) = "int" -> Payload(value) # 0
      [] TypeOf(value) \in {"str", "bytes", "list", "tuple"} ->
            Payload(value) # <<>>
      [] OTHER -> TRUE

\* d[key] = entry
dict_set(d, key, entry) ==
    [k \in (DOMAIN d) \cup {key} |-> IF k = key THEN entry ELSE d[k]]

RecordRegistry ==
    [by_id |-> <<>>, by_index |-> <<>>, by_name |-> <<>>,
     file_records |-> <<>>, callees |-> <<>>]

\* The value the field loop of scan_file leaves for the field `name`: that
\* of the last field so named, else None.
RECURSIVE last_field(_, _)
last_field(fields, name) ==
    IF fields = <<>> THEN PyNone
    ELSE IF Payload(fields[Len(fields)])[1] = Val("str", name)
         THEN Payload(fields[Len(fields)])[2]
         ELSE last_field(SubSeq(fields, 1, Len(fields) - 1), name)

\* The callees list scan_file builds from a callee-list field.
RECURSIVE callee_tuples(_)
callee_tuples(callee_list) ==
    IF callee_list = <<>> THEN <<>>
    ELSE LET c == Head(callee_list)
         IN  (IF TypeOf(c) \in {"list", "tuple"} /\ Len(Payload(c)) >= 4
              THEN <<Val("tuple",
                         <<py_str(IF TypeOf(Payload(c)[1]) = "SageFunctionSpec"
                                  THEN Payload(Payload(c)[1])[1]
                                  ELSE Payload(c)[1]),
                           py_str(Payload(c)[2]), py_str(Payload(c)[3]),
                           Payload(c)[4]>>)>>
              ELSE <<>>) \o callee_tuples(Tail(callee_list))

\* topic.name if topic is a SageFunctionSpec, else topic.
topic_name_of(topic) ==
    IF TypeOf(topic) = "SageFunctionSpec" THEN Payload(topic)[1] ELSE topic

\* The callee-list field when it is a list, else [].
callee_list_of(found) ==
    IF TypeOf(found) = "list" THEN Payload(found) ELSE <<>>

\* Lines 57-66 of scan_file, the registrations for one index item, its
\* fields already sought; [ok, reg, info].  A key that cannot be hashed
\* raises TypeError: at by_id, or at by_name with by_id already set.
scan_register(reg, relpath, topic_name, type, unique_id, unique_index, callee_list) ==
    IF unique_id # PyNone /\ ~Hashable(unique_id)
    THEN [ok |-> FALSE, reg |-> reg, info |-> PyNone]
    ELSE IF unique_id # PyNone /\ ~Hashable(topic_name)
    THEN [ok |-> FALSE,
          reg |-> [reg EXCEPT !.by_id =
                      dict_set(@, unique_id, <<relpath, topic_name, type>>)],
          info |-> PyNone]
    ELSE [ok |-> TRUE,
          reg |-> [reg EXCEPT
                     !.by_id = IF unique_id # PyNone
                               THEN dict_set(@, unique_id,
                                             <<relpath, topic_name, type>>)
                               ELSE @,
                     !.by_name = IF unique_id # PyNone
                                 THEN dict_set(@, topic_name,
                                               <<relpath, unique_id, type>>)
                                 ELSE @,
                     !.by_index = IF unique_index # PyNone
                                  THEN dict_set(@, unique_index,
                                                <<relpath, topic_name, type>>)
                                  ELSE @,
                     !.callees = IF unique_index # PyNone /\ callee_list # <<>>
                                 THEN dict_set(@, unique_id,
                                               callee_tuples(callee_list))
                                 ELSE @],
          info |-> Val("tuple", <<py_str(topic_name), type, unique_id,
                                  Val("list", callee_list)>>)]

\* The body of the loop of scan_file for one index item.
scan_item(reg, relpath, item) ==
    scan_register(reg, relpath, topic_name_of(Payload(item)[1]),
        py_str(Payload(item)[2]),
        last_field(Payload(Payload(item)[3]),
                   Lit(<<"u","n","i","q","u","e","-","i","d">>)),
        last_field(Payload(Payload(item)[3]),
                   Lit(<<"u","n","i","q","u","e","-","i","n","d","e","x">>)),
        callee_list_of(last_field(Payload(Payload(item)[3]),
                   Lit(<<"c","a","l","l","e","e","-","l","i","s","t">>))))

\* The loop of scan_file over the items from position i on.
RECURSIVE scan_items(_, _, _, _, _)
scan_items(reg, relpath, items, i, records_info) ==
    IF i > Len(items)
    THEN [ok |-> TRUE,
          reg |-> [reg EXCEPT !.file_records =
                       dict_set(@, relpath, records_info)]]
    ELSE Then(scan_item(reg, relpath, items[i]),
              LAMBDA one : scan_items(one.reg, relpath, items, i + 1,
                                      Append(records_info, one.info)))

\* scan_file without its try/except: the exception of read_sab_index_only
\* leaves scan_file.
scan_read_without_except(reg, relpath, read) ==
    IF read.pc = "failed" THEN [ok |-> FALSE, reg |-> reg]
    ELSE scan_items(reg, relpath, Payload(read.index), 1, <<>>)

\* Lines 37-78 of scan_file, after read_sab_index_only returned or raised.
\* A file that read_sab_index_only rejects is skipped with a warning.
scan_read(reg, relpath, read) ==
    IF read.pc = "failed" THEN [ok |-> TRUE, reg |-> reg]
    ELSE scan_items(reg, relpath, Payload(read.index), 1, <<>>)

\* RecordRegistry.scan_file on a file holding `bytes`: ok is false when an
\* exception leaves scan_file, and reg is the registry it leaves.
scan_file(reg, filepath, base_dir, bytes) ==
    scan_read(reg, os_path_relpath(filepath, base_dir),
              read_sab_index_only(bytes))

\* RecordRegistry.resolve_reference: [ok, val], ok false for TypeError.
resolve_reference(reg, unique_id, topic_name) ==
    IF ~Hashable(unique_id) THEN [ok |-> FALSE, val |-> PyNone]
    ELSE IF unique_id \in DOMAIN reg.by_id
    THEN [ok |-> TRUE, val |-> Val("tuple", reg.by_id[unique_id])]
    ELSE IF TypeOf(unique_id) = "int" /\ unique_id \in DOMAIN reg.by_index
    THEN [ok |-> TRUE, val |-> Val("tuple", reg.by_index[unique_id])]
    ELSE IF py_truthy(topic_name)
    THEN IF ~Hashable(topic_name) THEN [ok |-> FALSE, val |-> PyNone]
         ELSE IF topic_name \in DOMAIN reg.by_name
         THEN [ok |-> TRUE,
               val |-> Val("tuple", <<reg.by_name[topic_name][1], topic_name,
                                      reg.by_name[topic_name][3]>>)]
         ELSE [ok |-> TRUE, val |-> PyNone]
    ELSE [ok |-> TRUE, val |-> PyNone]

get_html_path(relpath) ==
    LET path == IF Contains(relpath, Lit(<<".", "~">>))
                THEN SubSeq(relpath, 1, rindex(relpath, Lit(<<".", "~">>)))
                ELSE relpath
    IN  IF Len(path) >= 4
           /\ SubSeq(path, Len(path) - 3, Len(path))
                  = Lit(<<".", "s", "a", "b">>)
        THEN SubSeq(path, 1, Len(path) - 4) \o Lit(<<".", "h", "t", "m", "l">>)
        ELSE path

\* A file of index items before scan_file is called on it.
callee_start(items, bytes) ==
    [pc |-> "call", items |-> items, data |-> bytes, ok |-> TRUE,
     reg |-> RecordRegistry]

\* A relative path before get_html_path is called on it.
htmlpath_start(relpath) == [pc |-> "call", relpath |-> relpath, out |-> <<>>]

(***************************************************************************)
(* site_generator.py -- generate_site.  The locals of the function are the *)
(* record `site`: pc, pending (the selected files os.walk has not yet      *)
(* handed to scan_file), file_count, sab_files, i (the position of the     *)
(* pass-2 loop), ok and fail.                                              *)
(***************************************************************************)
\* The last component of a relative path.
basename(path) ==
    IF Contains(path, Lit(<<"/">>))
    THEN SubSeq(path, rindex(path, Lit(<<"/">>)) + 2, Len(path))
    ELSE path

\* The files both passes select: '.sab.' in fn.
selected(paths) ==
    {path \in paths : Contains(basename(path), Lit(<<".", "s", "a", "b", ".">>))}

\* a < b for strings (code point order).
str_less(a, b) ==
    \E i \in 1..(Len(a) + 1) :
        /\ i <= Len(b)
        /\ SubSeq(a, 1, i - 1) = SubSeq(b, 1, i - 1)
        /\ (i = Len(a) + 1 \/ a[i] < b[i])

\* sorted(paths)
sorted(paths) ==
    CHOOSE list \in [1..Cardinality(paths) -> paths] :
        \A i, j \in DOMAIN list : i < j => str_less(list[i], list[j])

site_start(paths) ==
    [pc |-> "pass1", pending |-> selected(paths), file_count |-> 0,
     sab_files |-> <<>>, i |-> 1, ok |-> 0, fail |-> 0]

\* One iteration of the loop of scan_all on `path`; an exception leaving
\* scan_file ends generate_site.
site_scan(st, path, scanned) ==
    [st EXCEPT !.pending = @ \ {path},
               !.file_count = IF scanned THEN @ + 1 ELSE @,
               !.pc = IF scanned THEN @ ELSE "crashed"]

\* Lines 36-41: collect and sort the files of pass 2.
site_collect(st, sab_dir, paths) ==
    [st EXCEPT !.pc = "pass2",
               !.sab_files = sorted({os_path_join(sab_dir, path) :
                                        path \in selected(paths)})]

\* The pass-2 loop with a handler that does not count the failure.
site_convert_uncounted(st, converted) ==
    [st EXCEPT !.i = @ + 1,
               !.ok = IF converted THEN @ + 1 ELSE @,
               !.pc = IF st.i = Len(st.sab_files) THEN "done" ELSE @]

\* One iteration of the pass-2 loop: converted tells whether everything in
\* the try block (read_sab, the rendering, the writing) returned.
site_convert(st, converted) ==
    [st EXCEPT !.i = @ + 1,
               !.ok = IF converted THEN @ + 1 ELSE @,
               !.fail = IF converted THEN @ ELSE @ + 1,
               !.pc = IF st.i = Len(st.sab_files) THEN "done" ELSE @]

\* open(out_path, 'w') and write.
write_file(out, out_path, source, page) ==
    [files |-> dict_set(out.files, out_path, page),
     log |-> Append(out.log, [source |-> source, path |-> out_path])]

(***************************************************************************)
(* html_renderer.py -- _slugify.                                           *)
(***************************************************************************)
\* The class [a-z0-9] of _SLUG_RE.
slug_char(c) == (97 <= c /\ c <= 122) \/ (48 <= c /\ c <= 57)

\* _SLUG_RE.sub('-', s) were the pattern [^a-z0-9], without the +.
RECURSIVE _SLUG_RE_sub_each(_)
_SLUG_RE_sub_each(s) ==
    IF s = <<>> THEN <<>>
    ELSE <<IF slug_char(Head(s)) THEN Head(s) ELSE 45>>
             \o _SLUG_RE_sub_each(Tail(s))

\* _SLUG_RE.sub('-', s): each maximal run of characters outside [a-z0-9]
\* becomes one '-'.
RECURSIVE _SLUG_RE_sub(_)
_SLUG_RE_sub(s) ==
    IF s = <<>> THEN <<>>
    ELSE IF slug_char(Head(s)) THEN <<Head(s)>> \o _SLUG_RE_sub(Tail(s))
    ELSE IF Len(s) > 1 /\ ~slug_char(s[2]) THEN _SLUG_RE_sub(Tail(s))
    ELSE <<45>> \o _SLUG_RE_sub(Tail(s))

\* s.strip(chars)
RECURSIVE str_strip(_, _)
str_strip(s, chars) ==
    IF s = <<>> THEN s
    ELSE IF Head(s) \in chars THEN str_strip(Tail(s), chars)
    ELSE IF s[Len(s)] \in chars
         THEN str_strip(SubSeq(s, 1, Len(s) - 1), chars)
         ELSE s

\* s or default, for strings.
str_or(s, default) == IF s = <<>> THEN default ELSE s

\* _slugify(name) for a str name.
_slugify(name) ==
    str_or(str_strip(_SLUG_RE_sub(Lower(name)), {45}),
           Lit(<<"s", "e", "c", "t", "i", "o", "n">>))

(***************************************************************************)
(* html_renderer.py -- the paragraph and tab fix-up.  A content list is a  *)
(* sequence of values: str, SageCommand (name, parameter), SageEnvr (name, *)
(* mods, contents_list) and the sentinel _PARAGRAPH_MARKER.                *)
(***************************************************************************)
_PARAGRAPH_MARKER == Val("_PARAGRAPH_MARKER", 0)

\* SageEnvr(name=name, mods=[], contents_list=contents_list)
new_envr(name, contents_list) ==
    Val("SageEnvr", <<Val("str", name), Val("list", <<>>),
                      Val("list", contents_list)>>)

\* s.split(sep) for a one-character sep: the parts in order.
RECURSIVE str_split(_, _, _)
str_split(s, sep, part) ==
    IF s = <<>> THEN <<part>>
    ELSE IF Head(s) = sep THEN <<part>> \o str_split(Tail(s), sep, <<>>)
    ELSE str_split(Tail(s), sep, Append(part, Head(s)))

\* What the inner loop of _split_out_paragraph_markers appends for the
\* parts from position i on.
RECURSIVE split_parts(_, _)
split_parts(parts, i) ==
    IF i > Len(parts) THEN <<>>
    ELSE (IF i > 1 THEN <<_PARAGRAPH_MARKER>> ELSE <<>>)
         \o (IF parts[i] # <<>> THEN <<Val("str", parts[i])>> ELSE <<>>)
         \o split_parts(parts, i + 1)

RECURSIVE _split_out_paragraph_markers(_)
_split_out_paragraph_markers(lst) ==
    IF lst = <<>> THEN <<>>
    ELSE (IF TypeOf(Head(lst)) = "str"
             /\ \E i \in DOMAIN Payload(Head(lst)) :
                   Payload(Head(lst))[i] = PARAGRAPH_MARKER
          THEN split_parts(str_split(Payload(Head(lst)), PARAGRAPH_MARKER,
                                     <<>>), 1)
          ELSE <<Head(lst)>>)
         \o _split_out_paragraph_markers(Tail(lst))

\* isinstance(el, SageCommand) and str(el.name) == 'tab-to-tab-stop'
is_tab_command(el) ==
    /\ TypeOf(el) = "SageCommand"
    /\ py_str(Payload(el)[1]) = Val("str", Lit(<<"t", "a", "b", "-", "t", "o", "-", "t", "a", "b", "-", "s", "t", "o", "p">>))

\* The loop of _fix_up_tabs from position i on; this_tab is None (PyNone)
\* or the list being gathered.
RECURSIVE fix_up_tabs_from(_, _, _, _)
fix_up_tabs_from(lst, i, result, this_tab) ==
    IF i > Len(lst)
    THEN IF this_tab # PyNone
         THEN Append(result, new_envr(Lit(<<"n", "e", "x", "-", "t", "a", "b", "-", "t", "o", "-", "t", "a", "b", "-", "s", "t", "o", "p">>), Payload(this_tab)))
         ELSE result
    ELSE IF is_tab_command(lst[i])
    THEN fix_up_tabs_from(lst, i + 1, result,
                          IF this_tab = PyNone THEN Val("list", <<>>)
                          ELSE this_tab)
    ELSE IF lst[i] = _PARAGRAPH_MARKER
    THEN fix_up_tabs_from(lst, i + 1,
             (IF this_tab # PyNone
              THEN Append(result, new_envr(Lit(<<"n", "e", "x", "-", "t", "a", "b", "-", "t", "o", "-", "t", "a", "b", "-", "s", "t", "o", "p">>), Payload(this_tab)))
              ELSE result) \o <<lst[i]>>,
             PyNone)
    ELSE IF this_tab # PyNone
    THEN fix_up_tabs_from(lst, i + 1, result,
                          Val("list", Append(Payload(this_tab), lst[i])))
    ELSE fix_up_tabs_from(lst, i + 1, Append(result, lst[i]), this_tab)

_fix_up_tabs(lst) == fix_up_tabs_from(lst, 1, <<>>, PyNone)

_BLOCK_ENVRS ==
    {Lit(<<"e", "x", "a", "m", "p", "l", "e">>),
     Lit(<<"d", "i", "s", "p", "l", "a", "y">>),
     Lit(<<"e", "n", "u", "m", "e", "r", "a", "t", "e">>),
     Lit(<<"i", "t", "e", "m", "i", "z", "e">>),
     Lit(<<"v", "e", "r", "b", "a", "t", "i", "m">>),
     Lit(<<"d", "e", "s", "c", "r", "i", "p", "t", "i", "o", "n">>),
     Lit(<<"c", "e", "n", "t", "e", "r">>),
     Lit(<<"f", "i", "g", "u", "r", "e">>),
     Lit(<<"g", "r", "o", "u", "p">>),
     Lit(<<"m", "u", "l", "t", "i", "p", "l", "e">>),
     Lit(<<"c", "o", "m", "m", "e", "n", "t", "a", "r", "y">>),
     Lit(<<"h", "e", "a", "d", "e", "r">>),
     Lit(<<"h", "e", "a", "d", "i", "n", "g">>),
     Lit(<<"m", "a", "j", "o", "r", "h", "e", "a", "d", "i", "n", "g">>),
     Lit(<<"l", "i", "s", "p", ":", "f", "o", "r", "m", "a", "t">>),
     Lit(<<"c", "o", "m", "m", "o", "n", "-", "l", "i", "s", "p", ":", "f",
         "o", "r", "m", "a", "t">>),
     Lit(<<"g", "l", "o", "b", "a", "l", ":", "f", "o", "r", "m", "a",
         "t">>)}

\* isinstance(el, SageEnvr) and str(el.name) in _BLOCK_ENVRS
_is_block_envr(el) ==
    /\ TypeOf(el) = "SageEnvr"
    /\ py_str(Payload(el)[1]) \in {Val("str", name) : name \in _BLOCK_ENVRS}

\* _flush_paragraph(this_p, result): the new result.
_flush_paragraph(this_p, result) ==
    IF this_p # PyNone
       /\ SelectSeq(Payload(this_p), LAMBDA x : x # Val("str", <<>>)) # <<>>
    THEN Append(result,
                new_envr(Lit(<<"n", "e", "x", "-", "p", "a", "r", "a", "g", "r", "a", "p", "h">>),
                         SelectSeq(Payload(this_p),
                                   LAMBDA x : x # Val("str", <<>>))))
    ELSE result

\* The loop of _fix_up_paragraphs from position i on.
RECURSIVE fix_up_paragraphs_from(_, _, _, _)
fix_up_paragraphs_from(lst, i, result, this_p) ==
    IF i > Len(lst) THEN _flush_paragraph(this_p, result)
    ELSE IF lst[i] = _PARAGRAPH_MARKER
    THEN fix_up_paragraphs_from(lst, i + 1, _flush_paragraph(this_p, result),
                                PyNone)
    ELSE IF _is_block_envr(lst[i])
    THEN fix_up_paragraphs_from(lst, i + 1,
                                Append(_flush_paragraph(this_p, result), lst[i]),
                                PyNone)
    ELSE fix_up_paragraphs_from(lst, i + 1, result,
             Val("list", Append(IF this_p = PyNone THEN <<>>
                                ELSE Payload(this_p), lst[i])))

_fix_up_paragraphs(lst) ==
    IF \A i \in DOMAIN lst : lst[i] # _PARAGRAPH_MARKER THEN lst
    ELSE fix_up_paragraphs_from(lst, 1, <<>>, PyNone)

_fix_up_special_markup(lst) ==
    _fix_up_paragraphs(_fix_up_tabs(_split_out_paragraph_markers(lst)))

(***************************************************************************)
(* html_renderer.py -- _resolve_href.  ctx.registry is the registry reg    *)
(* (a RecordRegistry object is always truthy), ctx.current_file is a str   *)
(* or None.  The topic names of the registry are str values.               *)
(***************************************************************************)
\* os.path.dirname(path).
os_path_dirname(path) ==
    IF Contains(path, Lit(<<"/">>))
    THEN SubSeq(path, 1, rindex(path, Lit(<<"/">>)))
    ELSE <<>>

\* The length of the longest common prefix of two lists.
RECURSIVE commonprefix(_, _)
commonprefix(a, b) ==
    IF a = <<>> \/ b = <<>> \/ Head(a) # Head(b) THEN 0
    ELSE 1 + commonprefix(Tail(a), Tail(b))

\* '/'.join(parts)
RECURSIVE str_join(_)
str_join(parts) ==
    IF Len(parts) = 1 THEN parts[1]
    ELSE parts[1] \o Lit(<<"/">>) \o str_join(Tail(parts))

\* The non-empty components of a path.
path_list(path) ==
    SelectSeq(str_split(path, Ord("/"), <<>>), LAMBDA x : x # <<>>)

\* The tail of posixpath.relpath: '..' for every component of start below
\* the common prefix, then the rest of path.
rel_list(path_parts, start_parts, i) ==
    [k \in 1..(Len(start_parts) - i) |-> Lit(<<".", ".">>)]
        \o SubSeq(path_parts, i + 1, Len(path_parts))

rel_join(parts) == IF parts = <<>> THEN Lit(<<".">>) ELSE str_join(parts)

\* os.path.relpath(html_path, current_dir) for relative, normalised
\* arguments (both are taken from the same working directory).
href_relpath(html_path, current_dir) ==
    rel_join(rel_list(path_list(html_path), path_list(current_dir),
                      commonprefix(path_list(html_path),
                                   path_list(current_dir))))

\* The href of html_path and anchor as seen from current_file.
href_from(html_path, anchor, current_file) ==
    IF current_file # PyNone /\ Val("str", html_path) = current_file
    THEN Lit(<<"#">>) \o anchor
    ELSE IF current_file # PyNone
    THEN href_relpath(html_path, os_path_dirname(Payload(current_file)))
             \o Lit(<<"#">>) \o anchor
    ELSE html_path \o Lit(<<"#">>) \o anchor

\* The part of _resolve_href after the call of resolve_reference.
href_of(resolved, current_file) ==
    IF ~resolved.ok THEN resolved
    ELSE IF resolved.val = PyNone THEN [ok |-> TRUE, val |-> Lit(<<"#">>)]
    ELSE [ok |-> TRUE,
          val |-> href_from(get_html_path(Payload(resolved.val)[1]),
                            _slugify(Payload(Payload(resolved.val)[2])),
                            current_file)]

_resolve_href(reg, unique_id, topic, current_file) ==
    href_of(resolve_reference(reg, unique_id, topic_name_of(topic)),
            current_file)

\* No file scanned and no reference resolved yet.
resolve_start ==
    [pc |-> "scan", reg |-> RecordRegistry, n |-> 0,
     unique_id |-> PyNone, topic |-> PyNone, current_file |-> PyNone,
     href |-> [ok |-> TRUE, val |-> <<>>]]

(***************************************************************************)
(* binary_graphics.py -- the decoder.  A command or helper applied to the  *)
(* buffer d with the cursor at off returns [ok, val, off, err], as the     *)
(* stream methods do.  A command's val is the pair <<result, result type>> *)
(* with the result type True, False or ':form' written as a string.  A     *)
(* float is kept as its class only ("zero", "finite", "inf" or "nan"): the *)
(* decoder looks at no more of it, and the arithmetic below takes          *)
(* magnitudes that neither overflow nor underflow.  A keyword is kept as   *)
(* its index in BINARY_GRAPHICS_KEYWORDS.                                  *)
(***************************************************************************)
FORMAT_VERSION == 1

\* len(BINARY_GRAPHICS_KEYWORDS)
NUM_GRAPHICS_KEYWORDS == 86

\* The sentinel _END_VALUE.
_END_VALUE == Val("END", 0)

\* The opcodes of the tables _command_opcodes and _operation_opcodes.
CommandOpcodes ==
    {20, 22, 23, 24} \cup (50..60) \cup {62, 63, 64, 67, 68, 72, 74}

\* Name of the dataclass and number of leading _next_value calls of each
\* operation; every operation ends with _read_until_done.
OperationOpcodes ==
    (1 :> <<"OpPoint", 2>>) @@ (2 :> <<"OpLine", 4>>)
    @@ (3 :> <<"OpLines", 1>>) @@ (4 :> <<"OpRectangle", 4>>)
    @@ (5 :> <<"OpTriangle", 6>>) @@ (6 :> <<"OpPolygon", 1>>)
    @@ (8 :> <<"OpEllipse", 4>>) @@ (9 :> <<"OpBezierCurve", 8>>)
    @@ (10 :> <<"OpCubicSpline", 1>>) @@ (11 :> <<"OpPath", 1>>)
    @@ (12 :> <<"OpString", 3>>) @@ (14 :> <<"OpCircularArcTo", 5>>)
    @@ (16 :> <<"OpImage", 3>>) @@ (17 :> <<"OpStringImage", 3>>)
    @@ (18 :> <<"OpLineTo", 2>>) @@ (19 :> <<"OpClosePath", 0>>)

\* Numbers: int, bool (True is 1) and float.
is_number(value) == TypeOf(value) \in {"int", "bool", "float"}

is_integer(value) == TypeOf(value) \in {"int", "bool"}

int_of(value) ==
    IF TypeOf(value) = "bool" THEN (IF Payload(value) THEN 1 ELSE 0)
    ELSE Payload(value)

\* The class of a number as a float.
float_class(value) ==
    IF TypeOf(value) = "float" THEN Payload(value)
    ELSE IF int_of(value) = 0 THEN "zero" ELSE "finite"

\* The class of the IEEE-754 value of little-endian bytes (4 or 8 of them).
float_of_bytes(bs) ==
    LET n == Len(bs)
        exponent_ones == IF n = 4
                         THEN bs[4] % 128 = 127 /\ bs[3] >= 128
                         ELSE bs[8] % 128 = 127 /\ bs[7] >= 240
        fraction_zero == /\ \A i \in 1..(n - 2) : bs[i] = 0
                         /\ bs[n - 1] % (IF n = 4 THEN 128 ELSE 16) = 0
    IN  Val("float",
            IF exponent_ones THEN (IF fraction_zero THEN "inf" ELSE "nan")
            ELSE IF fraction_zero /\ bs[n] % 128 = 0
                    /\ bs[n - 1] < (IF n = 4 THEN 128 ELSE 16)
            THEN "zero" ELSE "finite")

\* num / denom
py_div(num, denom, off) ==
    IF ~is_number(num) \/ ~is_number(denom)
    THEN StreamRaise(off, "TypeError")
    ELSE IF float_class(denom) = "zero"
    THEN StreamRaise(off, "ZeroDivisionError")
    ELSE StreamOk(
           <<Val("float",
                 IF "nan" \in {float_class(num), float_class(denom)} THEN "nan"
                 ELSE IF float_class(num) = "inf"
                 THEN (IF float_class(denom) = "inf" THEN "nan" ELSE "inf")
                 ELSE IF float_class(denom) = "inf" THEN "zero"
                 ELSE float_class(num)),
             "True">>, off)

\* (tenths * 2 * math.pi) / 3600.0
py_angle(tenths, off) ==
    IF is_number(tenths)
    THEN StreamOk(<<Val("float", float_class(tenths)), "True">>, off)
    ELSE StreamRaise(off, "TypeError")

RECURSIVE _next_value(_, _)
RECURSIVE _decode_graphics_into_forms(_, _, _)
RECURSIVE gfx_command(_, _, _)

\* n consecutive _next_value calls; acc holds the values read so far.
RECURSIVE next_values(_, _, _, _)
next_values(d, off, n, acc) ==
    IF n <= 0 THEN StreamOk(acc, off)
    ELSE Then(_next_value(d, off),
              LAMBDA v : next_values(d, v.off, n - 1, Append(acc, v.val)))

RECURSIVE _read_until_done(_, _, _)
_read_until_done(d, off, result) ==
    Then(_next_value(d, off),
         LAMBDA v : IF v.val = _END_VALUE
                    THEN StreamOk(Val("list", result), v.off)
                    ELSE _read_until_done(d, v.off, Append(result, v.val)))

\* A value that is a count (range(count) accepts int and bool only), then
\* count * per values: %com-point-sequence (per = 2), %op-dash-pattern.
counted_values(d, off, per) ==
    Then(_next_value(d, off),
         LAMBDA length :
            IF ~is_integer(length.val) THEN StreamRaise(length.off, "TypeError")
            ELSE Then(next_values(d, length.off, int_of(length.val) * per, <<>>),
                      LAMBDA vs : StreamOk(<<Val("list", vs.val), "True">>,
                                           vs.off)))

\* %com-thin-string and %com-character-style
counted_string(d, off) ==
    Then(read_u8(d, off),
         LAMBDA length :
            Then(read_bytes(d, length.off, length.val),
                 LAMBDA bs : StreamOk(<<Val("str", bs.val), "True">>, bs.off)))

\* The end of _com_raster_image, with width and height in wh.
raster_data(d, off, byte_size, wh) ==
    IF ~is_integer(wh[1]) \/ ~is_integer(wh[2])
    THEN StreamRaise(off, "TypeError")
    ELSE Then(read_bytes(d, off,
                  ((int_of(wh[1]) * byte_size) \div 8) * int_of(wh[2])),
              LAMBDA bs :
                 StreamOk(<<Val("OpRasterImage",
                                <<Val("int", byte_size), wh[1], wh[2],
                                  Val("bytes", bs.val)>>), "True">>, bs.off))

\* _command_opcodes[opcode](stream)
gfx_command(opcode, d, off) ==
    CASE opcode = 50 -> StreamOk(<<_END_VALUE, "True">>, off)
      [] opcode = 51 ->
            Then(read_u8(d, off),
                 LAMBDA version :
                    IF version.val # FORMAT_VERSION
                    THEN StreamRaise(version.off,
                                     "ValueError: Bad graphics format version")
                    ELSE StreamOk(<<PyNone, "False">>, version.off))
      [] opcode = 52 ->
            Then(read_u8(d, off),
                 LAMBDA b : StreamOk(<<Val("int", b.val - 128), "True">>, b.off))
      [] opcode = 53 ->
            Then(read_u8s(d, off, 2),
                 LAMBDA bs : StreamOk(<<Val("int", LittleEndian(bs.val) - 32768),
                                        "True">>, bs.off))
      [] opcode = 54 ->
            Then(read_u32_le(d, off),
                 LAMBDA v : StreamOk(<<Val("int", v.val), "True">>, v.off))
      [] opcode = 55 ->
            Then(read_u8s(d, off, 2),
                 LAMBDA length :
                    Then(read_u8s(d, length.off,
                                  (LittleEndian(length.val) + 7) \div 8),
                         LAMBDA bs : StreamOk(<<Val("int", LittleEndian(bs.val)),
                                                "True">>, bs.off)))
      [] opcode = 56 ->
            Then(next_values(d, off, 2, <<>>),
                 LAMBDA vs : py_div(vs.val[1], vs.val[2], vs.off))
      [] opcode \in {57, 58} ->
            Then(unpack_from(d, off, IF opcode = 57 THEN 4 ELSE 8),
                 LAMBDA bs : StreamOk(<<float_of_bytes(bs.val), "True">>, bs.off))
      [] opcode = 59 -> counted_values(d, off, 2)
      [] opcode = 60 ->
            Then(_next_value(d, off), LAMBDA tenths : py_angle(tenths.val, tenths.off))
      [] opcode \in {62, 63} -> StreamOk(<<Val("bool", opcode = 62), "True">>, off)
      [] opcode = 64 ->
            Then(read_u8(d, off),
                 LAMBDA index :
                    IF index.val >= NUM_GRAPHICS_KEYWORDS
                    THEN StreamRaise(index.off, "IndexError")
                    ELSE StreamOk(<<Val("keyword", index.val), "True">>,
                                  index.off))
      [] opcode = 67 ->
            Then(next_values(d, off, 2, <<>>),
                 LAMBDA vs :
                    StreamOk(<<Val("OpSetCurrentPosition",
                                   vs.val \o <<Val("list", <<>>)>>), ":form">>,
                             vs.off))
      [] opcode = 68 ->
            Then(next_values(d, off, 6, <<>>),
                 LAMBDA vs : StreamOk(<<Val("OpGraphicsTransform", vs.val),
                                        ":form">>, vs.off))
      [] opcode \in {20, 24} -> counted_string(d, off)
      [] opcode = 22 ->
            Then(_decode_graphics_into_forms(d, off, <<>>),
                 LAMBDA forms : StreamOk(<<forms.val, "True">>, forms.off))
      [] opcode = 23 ->
            Then(read_u8(d, off),
                 LAMBDA byte_size :
                    Then(next_values(d, byte_size.off, 2, <<>>),
                         LAMBDA wh : raster_data(d, wh.off, byte_size.val,
                                                 wh.val)))
      [] opcode = 72 -> counted_values(d, off, 1)
      [] opcode = 74 ->
            Then(_decode_graphics_into_forms(d, off, <<>>),
                 LAMBDA output_forms :
                    Then(_read_until_done(d, output_forms.off, <<>>),
                         LAMBDA options :
                            StreamOk(<<Val("OpScanConversionMode",
                                           <<output_forms.val, options.val>>),
                                       ":form">>, options.off)))

\* `if has_value` holds for True and for ':form'.
_next_value(d, off) ==
    Then(read_u8(d, off),
         LAMBDA byte :
            IF byte.val \in CommandOpcodes
            THEN Then(gfx_command(byte.val, d, byte.off),
                      LAMBDA c : IF c.val[2] # "False"
                                 THEN StreamOk(c.val[1], c.off)
                                 ELSE _next_value(d, c.off))
            ELSE StreamRaise(byte.off,
                             "ValueError: Unknown binary graphics opcode"))

\* _operation_opcodes[opcode](stream)
gfx_operation(opcode, d, off) ==
    Then(next_values(d, off, OperationOpcodes[opcode][2], <<>>),
         LAMBDA vs :
            Then(_read_until_done(d, vs.off, <<>>),
                 LAMBDA options :
                    StreamOk(Val(OperationOpcodes[opcode][1],
                                 vs.val \o <<options.val>>), options.off)))

\* What one command did to the loop of _decode_graphics_into_forms: val is
\* <<"return" or "continue", the forms to append>>.
command_at_top(c) ==
    IF c.val[2] = "True"
    THEN IF c.val[1] = _END_VALUE
         THEN StreamOk(<<"return", <<>>>>, c.off)
         ELSE StreamRaise(c.off, "ValueError: for-value command at top-level")
    ELSE IF c.val[2] = "False" THEN StreamOk(<<"continue", <<>>>>, c.off)
    ELSE StreamOk(<<"continue", <<c.val[1]>>>>, c.off)

\* One iteration of the loop of _decode_graphics_into_forms.
decode_form(d, off) ==
    Then(read_u8(d, off),
         LAMBDA byte :
            IF byte.val \in CommandOpcodes
            THEN Then(gfx_command(byte.val, d, byte.off), command_at_top)
            ELSE IF byte.val \in DOMAIN OperationOpcodes
            THEN Then(gfx_operation(byte.val, d, byte.off),
                      LAMBDA form : StreamOk(<<"continue", <<form.val>>>>,
                                             form.off))
            ELSE StreamRaise(byte.off, "ValueError: Garbage byte"))

_decode_graphics_into_forms(d, off, forms) ==
    IF eof(d, off) THEN StreamOk(Val("list", forms), off)
    ELSE Then(decode_form(d, off),
              LAMBDA step :
                 IF step.val[1] = "return"
                 THEN StreamOk(Val("list", forms), step.off)
                 ELSE _decode_graphics_into_forms(d, step.off,
                                                  forms \o step.val[2]))

\* binary_decode_graphics(data)
binary_decode_graphics(d) == _decode_graphics_into_forms(d, 0, <<>>)

(***************************************************************************)
(* html_renderer.py -- _render_picture and the loop of                     *)
(* _render_content_list that calls it.  A picture is the value             *)
(* SagePicture <<type, file_name, name, contents>> that read_picture       *)
(* makes.  render_picture_to_svg is not interpreted: svg is what it does   *)
(* on the decoded forms, return or raise.  A part is kept as a value, not  *)
(* as text: the div of a picture is <<name, detail>>, with detail None     *)
(* (no contents), the svg, or the error.                                   *)
(***************************************************************************)
\* pic.contents if it is bytes, else pic.contents.encode('latin-1').
picture_data(contents) ==
    IF TypeOf(contents) = "bytes" THEN StreamOk(Payload(contents), 0)
    ELSE IF TypeOf(contents) # "str" THEN StreamRaise(0, "AttributeError")
    ELSE IF \E k \in DOMAIN Payload(contents) : Payload(contents)[k] > 255
    THEN StreamRaise(0, "UnicodeEncodeError")
    ELSE StreamOk(Payload(contents), 0)

\* The try block of _render_picture.
picture_try(contents, svg) ==
    Then(Then(picture_data(contents),
              LAMBDA bytes : binary_decode_graphics(bytes.val)),
         LAMBDA ops : IF svg.ok THEN StreamOk(<<svg.val, ops.val>>, 0)
                      ELSE svg)

\* _render_picture without its except clause.
picture_div_without_except(name, tried) ==
    IF tried.ok THEN StreamOk(Val("picture", <<name, Val("svg", tried.val)>>), 0)
    ELSE tried

\* The return of the try block, or the except clause of _render_picture.
picture_div(name, tried) ==
    IF tried.ok THEN StreamOk(Val("picture", <<name, Val("svg", tried.val)>>), 0)
    ELSE StreamOk(Val("picture", <<name, Val("error", tried.err)>>), 0)

_render_picture(pic, svg) ==
    IF ~py_truthy(Payload(pic)[4])
    THEN StreamOk(Val("picture", <<Payload(pic)[3], PyNone>>), 0)
    ELSE picture_div(Payload(pic)[3], picture_try(Payload(pic)[4], svg))

\* _render_sage on a str or a picture; the text of a str is not
\* interpreted.
_render_sage(sage, svg) ==
    IF TypeOf(sage) = "SagePicture" THEN _render_picture(sage, svg)
    ELSE StreamOk(Val("text", sage), 0)

\* _render_content_list before the first item of `processed` is rendered.
picture_start(processed) ==
    [pc |-> "loop", processed |-> processed, i |-> 1, parts |-> <<>>,
     err |-> "none"]

(***************************************************************************)
(* html_renderer.py -- render_records_to_html and _setup_record_callees.   *)
(* Of the page only its parts are interpreted, one per SageRecord: the     *)
(* position i of the record in `records` and the callee table that the     *)
(* record carries when render_record_to_html renders its references.       *)
(***************************************************************************)
\* The callees of one callee-list, added to the dict `callees`: ok is false
\* when a key is unhashable (TypeError).
RECURSIVE callee_entries(_, _)
callee_entries(fval, callees) ==
    IF fval = <<>> THEN [ok |-> TRUE, callees |-> callees]
    ELSE IF TypeOf(Head(fval)) \in {"list", "tuple"}
            /\ Len(Payload(Head(fval))) >= 4
    THEN IF ~Hashable(Payload(Head(fval))[4])
         THEN [ok |-> FALSE, callees |-> callees]
         ELSE callee_entries(Tail(fval),
                  dict_set(callees, Payload(Head(fval))[4],
                           <<Payload(Head(fval))[2], Payload(Head(fval))[3],
                             Payload(Head(fval))[1]>>))
    ELSE callee_entries(Tail(fval), callees)

\* The loop of _setup_record_callees over the fields.
RECURSIVE setup_fields(_, _)
setup_fields(fields, callees) ==
    IF fields = <<>> THEN [ok |-> TRUE, callees |-> callees]
    ELSE IF Payload(Head(fields))[1]
               = Val("str", Lit(<<"c","a","l","l","e","e","-","l","i","s","t">>))
            /\ TypeOf(Payload(Head(fields))[2]) = "list"
    THEN Then(callee_entries(Payload(Payload(Head(fields))[2]), callees),
              LAMBDA one : setup_fields(Tail(fields), one.callees))
    ELSE setup_fields(Tail(fields), callees)

\* _setup_record_callees(record, index_item): the callees the record has
\* afterwards, `before` being those it had.
_setup_record_callees(before, index_item) ==
    IF TypeOf(index_item) \notin {"list", "tuple"}
       \/ Len(Payload(index_item)) < 3
    THEN [ok |-> TRUE, callees |-> before]
    ELSE setup_fields(Payload(Payload(index_item)[3]), <<>>)

\* The callees of the record at position i (counted from 0) once the loop
\* of render_records_to_html has associated the index with it.
record_callees(index, i) ==
    IF py_truthy(index) /\ i < Len(Payload(index))
    THEN _setup_record_callees(<<>>, Payload(index)[i + 1])
    ELSE [ok |-> TRUE, callees |-> <<>>]

\* The loop associating the record at position i with the index item at
\* the number of SageRecords seen before it (not the code's).
RECURSIVE render_parts_counting_records(_, _, _, _)
render_parts_counting_records(records, index, i, parts) ==
    IF i >= Len(records) THEN [ok |-> TRUE, parts |-> parts]
    ELSE IF TypeOf(records[i + 1]) # "SageRecord"
    THEN render_parts_counting_records(records, index, i + 1, parts)
    ELSE Then(record_callees(index, Len(parts)),
              LAMBDA set :
                 render_parts_counting_records(records, index, i + 1,
                     Append(parts, [i |-> i, record |-> records[i + 1],
                                    callees |-> set.callees])))

\* The loop of render_records_to_html from position i (counted from 0) on.
RECURSIVE render_parts(_, _, _, _)
render_parts(records, index, i, parts) ==
    IF i >= Len(records) THEN [ok |-> TRUE, parts |-> parts]
    ELSE IF TypeOf(records[i + 1]) # "SageRecord"
    THEN render_parts(records, index, i + 1, parts)
    ELSE Then(record_callees(index, i),
              LAMBDA set :
                 render_parts(records, index, i + 1,
                     Append(parts, [i |-> i, record |-> records[i + 1],
                                    callees |-> set.callees])))

\* render_records_to_html(records, index)
render_records_to_html(records, index) == render_parts(records, index, 0, <<>>)

\* Records and an index before render_records_to_html is called on them.
page_start(records, index) ==
    [pc |-> "call", records |-> records, index |-> index,
     out |-> [ok |-> TRUE, parts |-> <<>>]]

(***************************************************************************)
(* svg_renderer.py -- _render_ops and render_picture_to_svg.  Forms are    *)
(* the dataclasses of binary_graphics.py with integer coordinates.  An     *)
(* SVG element is a value named after its tag that holds the numbers of    *)
(* its geometry attributes and, where the element has one, its transform   *)
(* attribute; colours and stroke widths are not interpreted.  A rendering  *)
(* is [elements, bb], bb being <<x1, y1, x2, y2>>.                         *)
(***************************************************************************)
\* OpGraphicsTransform(r11=1, r12=0, r21=0, r22=1, tx=0, ty=0)
IdentityTransform == Val("OpGraphicsTransform", <<1, 0, 0, 1, 0, 0>>)

\* abs(a)
abs(a) == IF a < 0 THEN -a ELSE a

\* BoundingBox()
BoundingBox == <<0, 0, 0, 0>>

\* bb.extend_point(x, y)
extend_point(bb, x, y) ==
    <<Min(bb[1], x), Min(bb[2], y), Max(bb[3], x), Max(bb[4], y)>>

\* bb.extend_box(other)
extend_box(bb, other) ==
    <<Min(bb[1], other[1]), Min(bb[2], other[2]),
      Max(bb[3], other[3]), Max(bb[4], other[4])>>

\* _fmt(n) of an integer n: its decimal text, which ends in ".0".
_fmt(n) == Val("fmt", n)

\* _plist_get(options, key, default)
RECURSIVE _plist_get(_, _, _)
_plist_get(options, key, default) ==
    IF Len(options) < 2 THEN default
    ELSE IF options[1] = key THEN options[2]
    ELSE _plist_get(Tail(Tail(options)), key, default)

\* The pairs of _points_to_string and _points_to_cubic.
RECURSIVE point_pairs(_, _)
point_pairs(points, invert_y) ==
    IF Len(points) < 2 THEN <<>>
    ELSE <<<<_fmt(points[1]),
             _fmt(IF invert_y THEN -points[2] ELSE points[2])>>>>
             \o point_pairs(Tail(Tail(points)), invert_y)

\* _path_to_svg: one part per known path operation.
RECURSIVE _path_to_svg(_)
_path_to_svg(path_ops) ==
    IF path_ops = <<>> THEN <<>>
    ELSE (CASE TypeOf(Head(path_ops)) = "OpClosePath" -> <<<<"Z">>>>
            [] TypeOf(Head(path_ops)) = "OpLineTo" ->
                  <<<<"l", _fmt(Payload(Head(path_ops))[1]),
                      _fmt(-Payload(Head(path_ops))[2])>>>>
            [] TypeOf(Head(path_ops)) = "OpSetCurrentPosition" ->
                  <<<<"M", _fmt(Payload(Head(path_ops))[1]),
                      _fmt(-Payload(Head(path_ops))[2])>>>>
            [] TypeOf(Head(path_ops)) = "OpCircularArcTo" ->
                  <<<<"L", _fmt(Payload(Head(path_ops))[1]),
                      _fmt(-Payload(Head(path_ops))[2])>>>>
            [] TypeOf(Head(path_ops)) = "OpLines" ->
                  <<<<"L", point_pairs(Payload(Head(path_ops))[1], FALSE)>>>>
            [] OTHER -> <<>>)
         \o _path_to_svg(Tail(path_ops))

\* _points_to_cubic(points, invert_y=True)
points_to_cubic(points) ==
    IF Len(points) < 4 THEN <<>>
    ELSE <<"M", Head(point_pairs(points, TRUE)),
           IF Len(Tail(point_pairs(points, TRUE))) = 3 THEN "C" ELSE "Q",
           Tail(point_pairs(points, TRUE))>>

\* `image_right if image_right else img.width`
image_extent(options, key, size) ==
    IF _plist_get(options, key, 0) # 0 THEN _plist_get(options, key, 0)
    ELSE size

\* The callee applied to a rendering (each call is written once).
Bind(r, K(_)) == K(r)

\* _transform_attr(transform)
_transform_attr(transform) ==
    <<_fmt(Payload(transform)[1]), _fmt(Payload(transform)[2]),
      _fmt(Payload(transform)[3]), _fmt(Payload(transform)[4]),
      _fmt(Payload(transform)[5]), _fmt(-Payload(transform)[6])>>

\* tx(x) and ty(y), the closures of _render_ops over `transform`.
svg_tx(transform, x) == x + Payload(transform)[5]

svg_ty(transform, y) == y - Payload(transform)[6]

\* One element at (x, y) .. (x2, y2) whose two corners extend the box.
svg_boxed(bb, tag, x, y, x2, y2, attrs) ==
    [elements |-> <<Val(tag, attrs)>>,
     bb |-> extend_point(extend_point(bb, x, y), x2, y2)]

\* One element that leaves the box alone.
svg_plain(bb, tag, attrs) == [elements |-> <<Val(tag, attrs)>>, bb |-> bb]

\* The branch of the loop of _render_ops for a form `op` that is neither a
\* transform nor a scan-conversion-mode; f is Payload(op).
render_form(op, f, transform, bb) ==
    CASE TypeOf(op) = "OpLine" ->
            svg_boxed(bb, "line",
                      svg_tx(transform, f[1]), svg_ty(transform, -f[2]),
                      svg_tx(transform, f[3]), svg_ty(transform, -f[4]),
                      <<_fmt(svg_tx(transform, f[1])),
                        _fmt(svg_ty(transform, -f[2])),
                        _fmt(svg_tx(transform, f[3])),
                        _fmt(svg_ty(transform, -f[4]))>>)
      [] TypeOf(op) = "OpRectangle" ->
            svg_boxed(bb, "rect",
                      svg_tx(transform, Min(f[1], f[3])),
                      svg_ty(transform, -Max(f[2], f[4])),
                      svg_tx(transform, Min(f[1], f[3])) + abs(f[3] - f[1]),
                      svg_ty(transform, -Max(f[2], f[4])) + abs(f[4] - f[2]),
                      <<_fmt(svg_tx(transform, Min(f[1], f[3]))),
                        _fmt(svg_ty(transform, -Max(f[2], f[4]))),
                        _fmt(abs(f[3] - f[1])), _fmt(abs(f[4] - f[2]))>>)
      [] TypeOf(op) = "OpEllipse" ->
            svg_plain(bb, "ellipse",
                      <<_fmt(svg_tx(transform, f[1])),
                        _fmt(svg_ty(transform, f[2])), _fmt(f[3]), _fmt(f[4])>>)
      [] TypeOf(op) = "OpTriangle" ->
            svg_plain(bb, "polygon",
                      point_pairs(<<svg_tx(transform, f[1]), svg_ty(transform, -f[2]),
                                    svg_tx(transform, f[3]), svg_ty(transform, -f[4]),
                                    svg_tx(transform, f[5]), svg_ty(transform, -f[6])>>,
                                  FALSE))
      [] TypeOf(op) = "OpPolygon" ->
            svg_plain(bb, "polygon", point_pairs(f[1], FALSE))
      [] TypeOf(op) = "OpLines" ->
            svg_plain(bb, "polyline",
                      <<point_pairs(f[1], TRUE), _transform_attr(transform)>>)
      [] TypeOf(op) \in {"OpString", "OpStringImage"} ->
            svg_boxed(bb, "text",
                      svg_tx(transform, f[2]), svg_ty(transform, -f[3]),
                      svg_tx(transform, f[2]) + Len(f[1]) * 10,
                      svg_ty(transform, -f[3]) - 16,
                      <<_fmt(svg_tx(transform, f[2])),
                        _fmt(svg_ty(transform, -f[3])), f[1]>>)
      [] TypeOf(op) = "OpPath" ->
            svg_plain(bb, "path",
                      <<_path_to_svg(f[1]), _transform_attr(transform)>>)
      [] TypeOf(op) = "OpBezierCurve" ->
            svg_plain(bb, "path",
                      <<points_to_cubic(<<f[1], f[2], f[5], f[6], f[7], f[8],
                                          f[3], f[4]>>),
                        _transform_attr(transform)>>)
      [] TypeOf(op) = "OpCubicSpline" ->
            svg_plain(bb, "path",
                      <<points_to_cubic(f[1]), _transform_attr(transform)>>)
      [] TypeOf(op) = "OpImage" /\ TypeOf(f[1]) = "OpRasterImage" ->
            svg_boxed(bb, "image",
                      svg_tx(transform, f[2]), svg_ty(transform, f[3]),
                      svg_tx(transform, f[2])
                          + image_extent(f[4], ":image-right", Payload(f[1])[2]),
                      svg_ty(transform, f[3])
                          + image_extent(f[4], ":image-bottom", Payload(f[1])[3]),
                      <<_fmt(svg_tx(transform, f[2])),
                        _fmt(svg_ty(transform, f[3])),
                        _fmt(image_extent(f[4], ":image-right", Payload(f[1])[2])),
                        _fmt(image_extent(f[4], ":image-bottom", Payload(f[1])[3]))>>)
      [] TypeOf(op) = "OpPoint" ->
            svg_boxed(bb, "circle",
                      svg_tx(transform, f[1]), svg_ty(transform, f[2]),
                      svg_tx(transform, f[1]), svg_ty(transform, f[2]),
                      <<_fmt(svg_tx(transform, f[1])),
                        _fmt(svg_ty(transform, f[2]))>>)
      [] OTHER -> [elements |-> <<>>, bb |-> bb]

\* The loop with each graphics-transform composed with the transform in
\* force (its translation added) instead of replacing it.
RECURSIVE render_loop_composing(_, _, _, _, _)
render_loop_composing(ops, i, transform, elements, bb) ==
    IF i > Len(ops) THEN [elements |-> elements, bb |-> bb]
    ELSE IF TypeOf(ops[i]) = "OpGraphicsTransform"
    THEN render_loop_composing(ops, i + 1,
             Val("OpGraphicsTransform",
                 [k \in 1..6 |-> IF k >= 5
                                 THEN Payload(ops[i])[k] + Payload(transform)[k]
                                 ELSE Payload(ops[i])[k]]),
             elements, bb)
    ELSE IF TypeOf(ops[i]) = "OpScanConversionMode"
    THEN Bind(render_loop_composing(Payload(ops[i])[1], 1, transform, <<>>,
                                    BoundingBox),
              LAMBDA sub :
                 render_loop_composing(ops, i + 1, transform,
                             Append(elements, Val("sub", sub.elements)),
                             extend_box(bb, sub.bb)))
    ELSE Bind(render_form(ops[i], Payload(ops[i]), transform, bb),
              LAMBDA one :
                 render_loop_composing(ops, i + 1, transform,
                             elements \o one.elements, one.bb))

\* The loop of _render_ops from position i on.  A graphics-transform
\* becomes the transform; a scan-conversion-mode is rendered by a call of
\* _render_ops on its output forms with the transform of the moment, and
\* its elements make one element of this list.
RECURSIVE render_loop(_, _, _, _, _)
render_loop(ops, i, transform, elements, bb) ==
    IF i > Len(ops) THEN [elements |-> elements, bb |-> bb]
    ELSE IF TypeOf(ops[i]) = "OpGraphicsTransform"
    THEN render_loop(ops, i + 1, ops[i], elements, bb)
    ELSE IF TypeOf(ops[i]) = "OpScanConversionMode"
    THEN Bind(render_loop(Payload(ops[i])[1], 1, transform, <<>>, BoundingBox),
              LAMBDA sub :
                 render_loop(ops, i + 1, transform,
                             Append(elements, Val("sub", sub.elements)),
                             extend_box(bb, sub.bb)))
    ELSE Bind(render_form(ops[i], Payload(ops[i]), transform, bb),
              LAMBDA one :
                 render_loop(ops, i + 1, transform,
                             elements \o one.elements, one.bb))

\* _render_ops(ops, transform)
_render_ops(ops, transform) == render_loop(ops, 1, transform, <<>>, BoundingBox)

\* The svg element of render_picture_to_svg around a rendering: width,
\* height and viewBox.
svg_root(rendered) ==
    [width |-> _fmt(rendered.bb[3] - rendered.bb[1]),
     height |-> _fmt(rendered.bb[4] - rendered.bb[2]),
     viewBox |-> <<_fmt(rendered.bb[1]), _fmt(rendered.bb[2]),
                   _fmt(rendered.bb[3] - rendered.bb[1]),
                   _fmt(rendered.bb[4] - rendered.bb[2])>>,
     content |-> rendered.elements, bb |-> rendered.bb]

\* render_picture_to_svg(ops)
render_picture_to_svg(ops) == svg_root(_render_ops(ops, IdentityTransform))

\* A form list before render_picture_to_svg is called on it.
svg_start(ops) ==
    [pc |-> "call", ops |-> ops, out |-> svg_root(_render_ops(<<>>, IdentityTransform))]

\* A raster-image command before it is read: the operands and the number
\* of payload bytes that follow them.
raster_start(parts, bytes) ==
    [pc |-> "call", parts |-> parts, raw |-> bytes,
     result |-> StreamOk(PyNone, 0)]

\* A stream before _next_value is called on it at offset 0.
next_value_start(pieces) ==
    [pc |-> "call", pieces |-> pieces, raw |-> Flatten(pieces),
     result |-> StreamOk(PyNone, 0)]

\* A stream before _com_keyword reads it.
keyword_start(raw) ==
    [pc |-> "call", raw |-> raw, result |-> StreamOk(PyNone, 0)]

\* binary_decode_graphics before the first iteration of its loop.
gfx_start(raw) ==
    [pc |-> "loop", raw |-> raw, offset |-> 0, forms |-> <<>>, err |-> "none"]


(***************************************************************************)
(* The byte-stream specification: a stream over an arbitrary buffer and    *)
(* any sequence of calls.  `last` records the last call: the method, the   *)
(* cursor before it, the span it asked for, and whether it raised.         *)
(***************************************************************************)
StreamBytes == {0, 127}

NoCall == [op |-> "init", pre |-> 0, span |-> 0, raised |-> FALSE, got |-> 0]

SabFunctions == {"read_sab", "read_sab_index_only"}

\* The variables of the specifications other than `own`, at rest: no
\* stream, no file.
Idle(own) ==
    /\ IF own = "stream" THEN TRUE
       ELSE data = <<>> /\ offset = 0 /\ last = NoCall
    /\ IF own = "sab" THEN TRUE
       ELSE file = <<>> /\ reader = [fn \in SabFunctions |-> sab_start]
    /\ IF own = "site" THEN TRUE
       ELSE /\ dir = <<>> /\ registry = RecordRegistry
            /\ site = site_start({}) /\ output = [files |-> <<>>, log |-> <<>>]
    /\ IF own = "slug" THEN TRUE
       ELSE slug = [pc |-> "name", name |-> <<>>, out |-> <<>>, again |-> <<>>]
    /\ IF own = "gfx" THEN TRUE
       ELSE gfx = gfx_start(<<>>)
    /\ IF own = "fixup" THEN TRUE
       ELSE markup = [pc |-> "split", lst |-> <<>>, out |-> <<>>]
    /\ IF own = "recode" THEN TRUE
       ELSE recode = recode_start(<<>>)
    /\ IF own = "resolve" THEN TRUE
       ELSE resolve = resolve_start
    /\ IF own = "keyword" THEN TRUE
       ELSE keyword = keyword_start(<<>>)
    /\ IF own = "htmlpath" THEN TRUE
       ELSE htmlpath = htmlpath_start(<<>>)
    /\ IF own = "picture" THEN TRUE
       ELSE picture = picture_start(<<>>)
    /\ IF own = "field" THEN TRUE
       ELSE field = field_start(<<>>, <<>>)
    /\ IF own = "symdef" THEN TRUE
       ELSE symdef = symdef_start(<<>>, <<>>)
    /\ IF own = "fat" THEN TRUE
       ELSE fat = fat_start(<<>>, <<>>)
    /\ IF own = "takeTwo" THEN TRUE
       ELSE takeTwo = take_two_start(<<>>, <<>>)
    /\ IF own = "callee" THEN TRUE
       ELSE callee = callee_start(<<>>, <<>>)
    /\ IF own = "nextValue" THEN TRUE
       ELSE nextValue = next_value_start(<<>>)
    /\ IF own = "raster" THEN TRUE
       ELSE raster = raster_start(<<>>, <<>>)
    /\ IF own = "drawing" THEN TRUE
       ELSE drawing = svg_start(<<>>)
    /\ IF own = "assoc" THEN TRUE
       ELSE assoc = page_start(<<>>, PyNone)

notStream ==
    <<file, reader, dir, registry, site, output, slug, gfx, markup,
      recode, resolve, keyword, htmlpath, picture, field, symdef, fat,
      takeTwo, callee, nextValue, raster, drawing, assoc>>

notSab ==
    <<data, offset, last, dir, registry, site, output, slug, gfx, markup,
      recode, resolve, keyword, htmlpath, picture, field, symdef, fat,
      takeTwo, callee, nextValue, raster, drawing, assoc>>

notSite ==
    <<data, offset, last, file, reader, slug, gfx, markup, recode,
      resolve, keyword, htmlpath, picture, field, symdef, fat, takeTwo,
      callee, nextValue, raster, drawing, assoc>>

notSlug ==
    <<data, offset, last, file, reader, dir, registry, site, output, gfx,
      markup, recode, resolve, keyword, htmlpath, picture, field, symdef,
      fat, takeTwo, callee, nextValue, raster, drawing, assoc>>

notGfx ==
    <<data, offset, last, file, reader, dir, registry, site, output,
      slug, markup, recode, resolve, keyword, htmlpath, picture, field,
      symdef, fat, takeTwo, callee, nextValue, raster, drawing, assoc>>

notFixup ==
    <<data, offset, last, file, reader, dir, registry, site, output,
      slug, gfx, recode, resolve, keyword, htmlpath, picture, field,
      symdef, fat, takeTwo, callee, nextValue, raster, drawing, assoc>>

notRecode ==
    <<data, offset, last, file, reader, dir, registry, site, output,
      slug, gfx, markup, resolve, keyword, htmlpath, picture, field,
      symdef, fat, takeTwo, callee, nextValue, raster, drawing, assoc>>

notResolve ==
    <<data, offset, last, file, reader, dir, registry, site, output,
      slug, gfx, markup, recode, keyword, htmlpath, picture, field,
      symdef, fat, takeTwo, callee, nextValue, raster, drawing, assoc>>

notKeyword ==
    <<data, offset, last, file, reader, dir, registry, site, output,
      slug, gfx, markup, recode, resolve, htmlpath, picture, field,
      symdef, fat, takeTwo, callee, nextValue, raster, drawing, assoc>>

notHtmlpath ==
    <<data, offset, last, file, reader, dir, registry, site, output,
      slug, gfx, markup, recode, resolve, keyword, picture, field,
      symdef, fat, takeTwo, callee, nextValue, raster, drawing, assoc>>

notPicture ==
    <<data, offset, last, file, reader, dir, registry, site, output,
      slug, gfx, markup, recode, resolve, keyword, htmlpath, field,
      symdef, fat, takeTwo, callee, nextValue, raster, drawing, assoc>>

notField ==
    <<data, offset, last, file, reader, dir, registry, site, output,
      slug, gfx, markup, recode, resolve, keyword, htmlpath, picture,
      symdef, fat, takeTwo, callee, nextValue, raster, drawing, assoc>>

notSymdef ==
    <<data, offset, last, file, reader, dir, registry, site, output,
      slug, gfx, markup, recode, resolve, keyword, htmlpath, picture,
      field, fat, takeTwo, callee, nextValue, raster, drawing, assoc>>

notFat ==
    <<data, offset, last, file, reader, dir, registry, site, output,
      slug, gfx, markup, recode, resolve, keyword, htmlpath, picture,
      field, symdef, takeTwo, callee, nextValue, raster, drawing, assoc>>

notTakeTwo ==
    <<data, offset, last, file, reader, dir, registry, site, output,
      slug, gfx, markup, recode, resolve, keyword, htmlpath, picture,
      field, symdef, fat, callee, nextValue, raster, drawing, assoc>>

notCallee ==
    <<data, offset, last, file, reader, dir, registry, site, output,
      slug, gfx, markup, recode, resolve, keyword, htmlpath, picture,
      field, symdef, fat, takeTwo, nextValue, raster, drawing, assoc>>

notNextValue ==
    <<data, offset, last, file, reader, dir, registry, site, output,
      slug, gfx, markup, recode, resolve, keyword, htmlpath, picture,
      field, symdef, fat, takeTwo, callee, raster, drawing, assoc>>

notRaster ==
    <<data, offset, last, file, reader, dir, registry, site, output,
      slug, gfx, markup, recode, resolve, keyword, htmlpath, picture,
      field, symdef, fat, takeTwo, callee, nextValue, drawing, assoc>>

notDrawing ==
    <<data, offset, last, file, reader, dir, registry, site, output,
      slug, gfx, markup, recode, resolve, keyword, htmlpath, picture,
      field, symdef, fat, takeTwo, callee, nextValue, raster, assoc>>

notAssoc ==
    <<data, offset, last, file, reader, dir, registry, site, output,
      slug, gfx, markup, recode, resolve, keyword, htmlpath, picture,
      field, symdef, fat, takeTwo, callee, nextValue, raster, drawing>>

Called(op, pre, span, r, got) ==
    [op |-> op, pre |-> pre, span |-> span, raised |-> ~r.ok, got |-> got]

InitStream ==
    /\ data \in SeqsUpTo(StreamBytes, MaxStreamLen)
    /\ offset = 0
    /\ last = NoCall
    /\ Idle("stream")

\* A fixed-width read: method name, the method, its width.
FixedRead(op, r, width) ==
    /\ offset' = r.off
    /\ last' = Called(op, offset, width, r, IF r.ok THEN width ELSE 0)
    /\ UNCHANGED <<data, notStream>>

CallReadU8 == FixedRead("read_u8", read_u8(data, offset), 1)

CallReadU16 == FixedRead("read_u16_le", read_u16_le(data, offset), 2)

CallReadU32 == FixedRead("read_u32_le", read_u32_le(data, offset), 4)

CallReadFloat == FixedRead("read_float_le", read_float_le(data, offset), 4)

CallReadDouble == FixedRead("read_double_le", read_double_le(data, offset), 8)

CallReadBytes ==
    \E n \in 0..MaxStreamArg :
        /\ offset + n <= MaxStreamOffset
        /\ LET r == read_bytes(data, offset, n)
           IN  /\ offset' = r.off
               /\ last' = Called("read_bytes", offset, n, r, Len(r.val))
        /\ UNCHANGED <<data, notStream>>

CallSeek ==
    \E position \in 0..(Len(data) + MaxStreamArg) :
        /\ position <= MaxStreamOffset
        /\ LET r == seek(data, offset, position)
           IN  /\ offset' = r.off
               /\ last' = Called("seek", offset, 0, r, 0)
        /\ UNCHANGED <<data, notStream>>

CallPeek ==
    LET r == peek(data, offset)
    IN  /\ last' = Called("peek", offset, 1, r, IF r.ok THEN 1 ELSE 0)
        /\ offset' = r.off
        /\ UNCHANGED <<data, notStream>>

CallEof ==
    /\ last' = [op |-> "eof", pre |-> offset, span |-> 0, raised |-> FALSE,
                got |-> IF eof(data, offset) THEN 1 ELSE 0]
    /\ UNCHANGED <<data, offset, notStream>>

NextStream ==
    \/ CallReadU8
    \/ CallReadU16
    \/ CallReadU32
    \/ CallReadFloat
    \/ CallReadDouble
    \/ CallReadBytes
    \/ CallSeek
    \/ CallPeek
    \/ CallEof

SpecStream == InitStream /\ [][NextStream]_vars

(***************************************************************************)
(* The SAB-file specification: read_sab and read_sab_index_only run, one   *)
(* section at a time and in any interleaving, on the same file.  The file  *)
(* is put together from encoded pieces, so that whole sections decode;     *)
(* truncated files, foreign headers and wrong section pointers are among   *)
(* them.                                                                   *)
(***************************************************************************)
U16(n) == <<n % 256, n \div 256>>

U32(n) == <<n % 256, (n \div 256) % 256, (n \div 65536) % 256, n \div 16777216>>

\* The encoding of a short string (code 11), of a symbol definition
\* (code 16) and of a symbol reference (code 14).
Str(chars) == <<11, Len(chars)>> \o Lit(chars)

Def(chars) == <<16>> \o Str(chars)

Ref(i) == <<14>> \o U16(i)

\* File attribute alists: empty; a definition and a reference to it; a
\* reference with nothing defined.
AttrSnippets ==
    {<<31, 13>> \o U16(0),
     <<31, 13>> \o U16(2) \o Def(<<"a">>) \o Ref(0),
     <<31, 13>> \o U16(1) \o Ref(0)}

\* Records: one whose type refers to its name; one that refers to symbol 0
\* before defining anything; one with a contents field referring to both of
\* its symbols.
RecordSnippets ==
    {<<0>> \o Def(<<"B">>) \o <<1>> \o Ref(0) \o <<3>> \o U16(0),
     <<0>> \o Ref(0) \o <<1>> \o Def(<<"c">>) \o <<3>> \o U16(0),
     <<0>> \o Def(<<"c">>) \o <<1>> \o Def(<<"d">>) \o <<3>> \o U16(1)
         \o <<4>> \o Def(<<"c","o","n","t","e","n","t","s">>)
         \o <<9>> \o U16(2) \o Ref(1) \o Ref(0)}

\* Indexes: empty; one item; one item referring to an undefined symbol; one
\* item with a unique-id and a unique-index field.
IndexSnippets ==
    {<<28>> \o U32(0),
     <<28>> \o U32(1) \o <<30>> \o Def(<<"a">>) \o <<1>> \o Ref(0) \o U16(0),
     <<28>> \o U32(1) \o <<30>> \o Str(<<"t">>) \o <<1>> \o Ref(0) \o U16(0),
     <<28>> \o U32(1) \o <<30>> \o Str(<<"t">>) \o <<1>> \o Def(<<"s">>)
         \o U16(2)
         \o <<4>> \o Def(<<"u","n","i","q","u","e","-","i","d">>)
         \o <<35>> \o Str(<<"u">>)
         \o <<4>> \o Def(<<"u","n","i","q","u","e","-","i","n","d","e","x">>)
         \o <<10>> \o U32(7)}

SabLayouts == {"normal", "skip_records", "index_first", "short_pos"}

\* A file: header, attributes, the two section pointers, the records and
\* the index.  The layout says where the pointers point: at the sections;
\* both at the index; sections swapped; or pos one byte short.
SabFile(id, version, attrs, recs, index, layout) ==
    LET head == U32(id) \o <<version>> \o attrs
        body == Flatten(recs)
        first == Len(head) + 8
        ps == CASE layout = "skip_records" -> first + Len(body)
                [] layout = "index_first" -> first + Len(index)
                [] OTHER -> first
        pos == CASE layout = "index_first" -> first
                 [] layout = "short_pos" -> first + Len(body) - 1
                 [] OTHER -> first + Len(body)
    IN  head \o U32(ps) \o U32(pos)
             \o (IF layout = "index_first" THEN index \o body
                 ELSE body \o index)

InitSab ==
    /\ \E id \in {0, 1}, version \in {5, 7}, attrs \in AttrSnippets,
          recs \in SeqsUpTo(RecordSnippets, MaxRecords),
          index \in IndexSnippets, layout \in SabLayouts :
            LET whole == SabFile(id, version, attrs, recs, index, layout)
            IN  \E cut \in (0..MaxCut) \cup {Len(whole)} :
                    file = SubSeq(whole, 1, cut)
    /\ reader = [fn \in SabFunctions |-> sab_start]
    /\ Idle("sab")

\* fn is at `pc` and takes the step `next` of its code.
SabAt(fn, pc, next) ==
    /\ reader[fn].pc = pc
    /\ reader' = [reader EXCEPT ![fn] = next]
    /\ UNCHANGED <<file, notSab>>

SabHeader(fn) == SabAt(fn, "header", sab_header(fn, file, reader[fn]))

SabAttrs(fn) == SabAt(fn, "attrs", sab_attrs(file, reader[fn]))

SabPointers(fn) == SabAt(fn, "pointers", sab_pointers(fn, file, reader[fn]))

SabRecord ==
    /\ reader["read_sab"].offset < reader["read_sab"].pos
    /\ SabAt("read_sab", "records", sab_record(file, reader["read_sab"]))

SabIndex(fn) ==
    \/ SabAt(fn, "index", sab_index(file, reader[fn]))
    \/ /\ reader[fn].offset >= reader[fn].pos
       /\ SabAt(fn, "records", sab_index(file, reader[fn]))

NextSab ==
    \/ \E fn \in SabFunctions : SabHeader(fn)
    \/ \E fn \in SabFunctions : SabAttrs(fn)
    \/ \E fn \in SabFunctions : SabPointers(fn)
    \/ SabRecord
    \/ \E fn \in SabFunctions : SabIndex(fn)

SpecSab == InitSab /\ [][NextSab]_vars

\* C1: for a SabStream over a buffer of length n, after any sequence of
\* reads, peek, seek and eof calls (failing calls included) the cursor
\* satisfies 0 <= offset <= n.
C1_OffsetWithinBuffer == 0 <= offset /\ offset <= Len(data)

\* C2: every read whose requested span exceeds the buffer fails with an
\* error: read_bytes(k) with offset + k > len(buffer) raises instead of
\* returning fewer than k bytes, and the fixed-width reads raise when fewer
\* than 1/2/4/8 bytes remain.
C2_ReadPastEndRaises ==
    (/\ last.op \in {"read_u8", "read_u16_le", "read_u32_le",
                     "read_float_le", "read_double_le", "read_bytes"}
     /\ last.pre + last.span > Len(data))
        => (last.raised /\ last.got = 0)

(***************************************************************************)
(* The site specification: generate_site(sab_dir, output_dir) on an        *)
(* archive of up to MaxFiles files.  Pass 1 takes the selected files in    *)
(* any order (os.walk lists a directory in no particular order); pass 2    *)
(* takes them in sorted order.                                             *)
(***************************************************************************)
sab_dir == Lit(<<"s">>)

output_dir == Lit(<<"o">>)

\* Relative paths: two versions of one file, a file of the same name in a
\* subdirectory, and a name the passes do not select.
SitePaths ==
    {Lit(<<"a", ".", "s", "a", "b", ".", "~", "1", "~">>),
     Lit(<<"a", ".", "s", "a", "b", ".", "~", "2", "~">>),
     Lit(<<"d", "/", "a", ".", "s", "a", "b", ".", "~", "1", "~">>),
     Lit(<<"b", ".", "s", "a", "b">>)}

\* An encoded field and an encoded index item of topic "t" and type "s".
Field(name, code, value) == <<4>> \o Def(name) \o <<code>> \o value

IndexOf(fields) ==
    <<28>> \o U32(1) \o <<30>> \o Str(<<"t">>) \o <<1>> \o Def(<<"s">>)
        \o U16(Len(fields)) \o Flatten(fields)

\* Indexes of one item: with a unique-id and a unique-index; with a
\* unique-index only; with two unique-id fields; with a unique-id that
\* decodes to None (an empty file-attribute-string); with a unique-id that
\* decodes to a list.
SiteIndexes ==
    LET id == <<"u","n","i","q","u","e","-","i","d">>
        ix == <<"u","n","i","q","u","e","-","i","n","d","e","x">>
    IN  {IndexOf(<<Field(id, 35, Str(<<"u">>)), Field(ix, 10, U32(7))>>),
         IndexOf(<<Field(ix, 10, U32(8))>>),
         IndexOf(<<Field(id, 35, Str(<<"v">>)), Field(id, 35, Str(<<"w">>))>>),
         IndexOf(<<Field(id, 35, <<38, 11, 0>>)>>),
         IndexOf(<<Field(id, 35, <<13>> \o U16(0))>>)}

\* File contents: each index after no record; one file whose record does
\* not decode; one file with a foreign id pattern.
SiteContents ==
    {SabFile(0, 7, <<31, 13>> \o U16(0), <<>>, index, "normal") :
        index \in SiteIndexes}
    \cup {SabFile(id, 7, <<31, 13>> \o U16(0),
                  <<<<0>> \o Ref(0) \o <<1>> \o Def(<<"c">>) \o <<3>> \o U16(0)>>,
                  <<28>> \o U32(0), "normal") : id \in {0, 1}}

\* The references of a page: by unique-id, by unique-index, by topic name
\* and one that nothing resolves.
SiteReferences ==
    {<<Val("str", Lit(<<"u">>)), PyNone>>,
     <<Val("int", 8), Val("str", Lit(<<"t">>))>>,
     <<PyNone, Val("str", Lit(<<"t">>))>>,
     <<PyNone, PyNone>>}

InitSite ==
    /\ \E paths \in SUBSET SitePaths :
          /\ Cardinality(paths) <= MaxFiles
          /\ dir \in [paths -> SiteContents]
          /\ site = site_start(paths)
    /\ registry = RecordRegistry
    /\ output = [files |-> <<>>, log |-> <<>>]
    /\ Idle("site")

\* Pass 1, one file: scan_all hands it to scan_file.
SiteScanned(path, scanned) ==
    /\ registry' = scanned.reg
    /\ site' = site_scan(site, path, scanned.ok)

SiteScan ==
    /\ site.pc = "pass1"
    /\ \E path \in site.pending :
          SiteScanned(path, scan_file(registry, os_path_join(sab_dir, path),
                                      sab_dir, dir[path]))
    /\ UNCHANGED <<dir, output, notSite>>

\* Pass 2 begun while scan_all still has files to scan.
SiteCollect_before_scan_all_returns ==
    /\ site.pc = "pass1"
    /\ site' = IF selected(DOMAIN dir) = {}
               THEN [site_collect(site, sab_dir, DOMAIN dir)
                        EXCEPT !.pc = "done"]
               ELSE site_collect(site, sab_dir, DOMAIN dir)
    /\ UNCHANGED <<dir, registry, output, notSite>>

\* Pass 1 is over: the files of pass 2 are collected and sorted.
SiteCollect ==
    /\ site.pc = "pass1" /\ site.pending = {}
    /\ site' = IF selected(DOMAIN dir) = {}
               THEN [site_collect(site, sab_dir, DOMAIN dir)
                        EXCEPT !.pc = "done"]
               ELSE site_collect(site, sab_dir, DOMAIN dir)
    /\ UNCHANGED <<dir, registry, output, notSite>>

\* Pass 2, one file.  Of render_records_to_html only its use of the
\* registry is interpreted, by one reference that it resolves: it returns
\* a page holding the href or raises.
SiteConverted(relpath, converted, href) ==
    /\ site' = site_convert(site, converted /\ href.ok)
    /\ output' = IF converted /\ href.ok
                 THEN write_file(output,
                                 os_path_join(output_dir, get_html_path(relpath)),
                                 relpath, Val("html", <<relpath, href.val>>))
                 ELSE output

SiteRead(relpath, read) ==
    \E rendered \in BOOLEAN, ref \in SiteReferences :
        SiteConverted(relpath, read.pc = "done" /\ rendered,
                      _resolve_href(registry, ref[1], ref[2],
                                    Val("str", get_html_path(relpath))))

SiteConvert ==
    /\ site.pc = "pass2"
    /\ SiteRead(os_path_relpath(site.sab_files[site.i], sab_dir),
                read_sab(dir[os_path_relpath(site.sab_files[site.i], sab_dir)]))
    /\ UNCHANGED <<dir, registry, notSite>>

NextSite == SiteScan \/ SiteCollect \/ SiteConvert

SpecSite == InitSite /\ [][NextSite]_vars

(***************************************************************************)
(* The slug specification: _slugify applied to a name, then to its own     *)
(* result.                                                                 *)
(***************************************************************************)
\* 'A', 'b', '0', '-', ' ' and U+00C9 (whose lower case is U+00E9).
SlugAlphabet == {65, 98, 48, 45, 32, 201}

InitSlug ==
    /\ \E name \in SeqsUpTo(SlugAlphabet, MaxSlugLen) :
          slug = [pc |-> "name", name |-> name, out |-> <<>>, again |-> <<>>]
    /\ Idle("slug")

\* out = _slugify(name)
Slugify ==
    /\ slug.pc = "name"
    /\ slug' = [slug EXCEPT !.pc = "slug", !.out = _slugify(slug.name)]
    /\ UNCHANGED notSlug

\* again = _slugify(out)
SlugifyAgain ==
    /\ slug.pc = "slug"
    /\ slug' = [slug EXCEPT !.pc = "slug of slug", !.again = _slugify(slug.out)]
    /\ UNCHANGED notSlug

NextSlug == Slugify \/ SlugifyAgain

SpecSlug == InitSlug /\ [][NextSlug]_vars

(***************************************************************************)
(* The graphics specification: binary_decode_graphics on the contents of a *)
(* picture, one iteration of the top-level loop at a time.  gfx holds the  *)
(* bytes (raw), the stream cursor, the forms decoded so far and where the  *)
(* call is: in the loop, returned or raised.                               *)
(***************************************************************************)
\* Pieces of graphics data: %com-end; format versions 1 and 2; the integer 1;
\* %com-set-position, %op-path and %com-path, which read what follows
\* them; a thin string that announces two characters and holds one; and a
\* byte that is no opcode.
GfxPieces ==
    {<<50>>, <<51, 1>>, <<51, 2>>, <<52, 129>>, <<67>>, <<11>>, <<22>>,
     <<20, 2, 65>>, <<0>>}

\* Up to MaxGfxPieces pieces, whole or without the last byte.
InitGfx ==
    /\ \E pieces \in SeqsUpTo(GfxPieces, MaxGfxPieces), cut \in {0, 1} :
          gfx = gfx_start(SubSeq(Flatten(pieces), 1,
                                 Max(Len(Flatten(pieces)) - cut, 0)))
    /\ Idle("gfx")

\* The loop has decoded one command or operation.
GfxDecoded(step) ==
    gfx' = IF ~step.ok
           THEN [gfx EXCEPT !.pc = "raised", !.err = step.err]
           ELSE [gfx EXCEPT !.offset = step.off,
                            !.forms = @ \o step.val[2],
                            !.pc = IF step.val[1] = "return"
                                   THEN "returned" ELSE @]

\* `while not stream.eof()` holds: one iteration.
GfxForm ==
    /\ gfx.pc = "loop" /\ ~eof(gfx.raw, gfx.offset)
    /\ GfxDecoded(decode_form(gfx.raw, gfx.offset))
    /\ UNCHANGED notGfx

\* The loop ends at the end of the data: return forms.
GfxEof ==
    /\ gfx.pc = "loop" /\ eof(gfx.raw, gfx.offset)
    /\ gfx' = [gfx EXCEPT !.pc = "returned"]
    /\ UNCHANGED notGfx

NextGfx == GfxForm \/ GfxEof

SpecGfx == InitGfx /\ [][NextGfx]_vars

(***************************************************************************)
(* The fix-up specification: _fix_up_special_markup on a content list, one *)
(* of its three passes at a time.  markup holds the list given (lst) and   *)
(* the list after the passes made so far (out).                            *)
(***************************************************************************)
\* Content items: the texts 'a', '' and 'a<PARAGRAPH_MARKER>b', a text that
\* is one paragraph marker, a tab-to-tab-stop command, an inline
\* environment (b) and a block-level one (example).
MarkupItems ==
    {Val("str", Lit(<<"a">>)), Val("str", <<>>),
     Val("str", <<97, PARAGRAPH_MARKER, 98>>),
     Val("str", <<PARAGRAPH_MARKER>>),
     Val("SageCommand", <<Val("str", Lit(<<"t", "a", "b", "-", "t", "o", "-",
                                           "t", "a", "b", "-", "s", "t", "o",
                                           "p">>)), PyNone>>),
     new_envr(Lit(<<"b">>), <<Val("str", Lit(<<"a">>))>>),
     new_envr(Lit(<<"e", "x", "a", "m", "p", "l", "e">>), <<>>)}

InitFixup ==
    /\ \E lst \in SeqsUpTo(MarkupItems, MaxMarkupLen) :
          markup = [pc |-> "split", lst |-> lst, out |-> lst]
    /\ Idle("fixup")

FixupSplit ==
    /\ markup.pc = "split"
    /\ markup' = [markup EXCEPT !.pc = "tabs",
                                !.out = _split_out_paragraph_markers(@)]
    /\ UNCHANGED notFixup

FixupTabs ==
    /\ markup.pc = "tabs"
    /\ markup' = [markup EXCEPT !.pc = "paragraphs", !.out = _fix_up_tabs(@)]
    /\ UNCHANGED notFixup

FixupParagraphs ==
    /\ markup.pc = "paragraphs"
    /\ markup' = [markup EXCEPT !.pc = "done", !.out = _fix_up_paragraphs(@)]
    /\ UNCHANGED notFixup

NextFixup == FixupSplit \/ FixupTabs \/ FixupParagraphs

SpecFixup == InitFixup /\ [][NextFixup]_vars

(***************************************************************************)
(* The recoding specification: _recode_and_expand on a text, one statement *)
(* or loop iteration at a time.  recode holds the text, result (after the  *)
(* two replacements), the position i of the loop, col, out (joined) and,   *)
(* in last, the character of the latest iteration, the column before it    *)
(* and what it appended.                                                   *)
(***************************************************************************)
\* 'x', 0x02 (alpha), the tab 0x89, 0x8D, a dropped C1 character (0x80) and
\* a newline.
RecodeAlphabet == {120, 2, 137, 141, 128, 10}

\* The text "x\x02y\x8d\x8dz\x89q".
RecodeExample == <<120, 2, 121, 141, 141, 122, 137, 113>>

InitRecode ==
    /\ \E text \in SeqsUpTo(RecodeAlphabet, MaxTextLen) \cup {RecodeExample} :
          recode = recode_start(text)
    /\ Idle("recode")

RecodeBreaks ==
    /\ recode.pc = "replace"
    /\ recode' = [recode EXCEPT !.pc = "loop",
                                !.result = recode_breaks(recode.text)]
    /\ UNCHANGED notRecode

RecodeStepped(code, step) ==
    recode' = [recode EXCEPT !.i = @ + 1, !.col = step.col,
                             !.out = @ \o step.out,
                             !.last = [code |-> code, col |-> recode.col,
                                       out |-> step.out]]

RecodeChar ==
    /\ recode.pc = "loop" /\ recode.i <= Len(recode.result)
    /\ RecodeStepped(recode.result[recode.i],
                     recode_char(recode.result[recode.i], recode.col))
    /\ UNCHANGED notRecode

RecodeJoin ==
    /\ recode.pc = "loop" /\ recode.i > Len(recode.result)
    /\ recode' = [recode EXCEPT !.pc = "done"]
    /\ UNCHANGED notRecode

NextRecode == RecodeBreaks \/ RecodeChar \/ RecodeJoin

SpecRecode == InitRecode /\ [][NextRecode]_vars

(***************************************************************************)
(* Specification SpecResolve: index items are registered as scan_file      *)
(* registers them (pass 1), then references are resolved to hrefs as the   *)
(* renderer resolves them (pass 2).  resolve holds the registry, the       *)
(* number of items registered, and the latest reference with its href.     *)
(***************************************************************************)
\* Topic names that differ in case only, and one that does not.
ResolveNames ==
    {Val("str", Lit(<<"A", "b">>)), Val("str", Lit(<<"A", "B">>)),
     Val("str", Lit(<<"a", "b">>)), Val("str", Lit(<<"c">>))}

ResolveIds == {Val("str", Lit(<<"u">>)), Val("str", Lit(<<"v">>))}

ResolveIndexes == {Val("int", 7)}

ResolveFiles ==
    {Lit(<<"a", ".", "s", "a", "b", ".", "~", "1", "~">>),
     Lit(<<"b", ".", "s", "a", "b">>)}

InitResolve ==
    /\ resolve = resolve_start
    /\ Idle("resolve")

\* Pass 1: one index item is registered.
ResolveRegister ==
    /\ resolve.pc = "scan"
    /\ resolve.n < MaxRegistered
    /\ \E relpath \in ResolveFiles, name \in ResolveNames,
          id \in ResolveIds \cup {PyNone},
          ix \in ResolveIndexes \cup {PyNone} :
          resolve' = [resolve EXCEPT
                        !.n = @ + 1,
                        !.reg = scan_register(@, relpath, name,
                                              Val("str", Lit(<<"s">>)),
                                              id, ix, <<>>).reg]
    /\ UNCHANGED notResolve

\* Pass 1 is over.
ResolveScanned ==
    /\ resolve.pc = "scan"
    /\ resolve' = [resolve EXCEPT !.pc = "render"]
    /\ UNCHANGED notResolve

\* Pass 2: _resolve_href of one reference.
ResolveHref ==
    /\ resolve.pc = "render"
    /\ \E unique_id \in ResolveIds \cup ResolveIndexes \cup {PyNone},
          topic \in ResolveNames \cup {PyNone},
          current_file \in {PyNone, Val("str", Lit(<<"a", ".", "h", "t", "m", "l">>))} :
          resolve' = [resolve EXCEPT
                        !.pc = "resolved",
                        !.unique_id = unique_id,
                        !.topic = topic,
                        !.current_file = current_file,
                        !.href = _resolve_href(resolve.reg, unique_id, topic,
                                               current_file)]
    /\ UNCHANGED notResolve

NextResolve == ResolveRegister \/ ResolveScanned \/ ResolveHref

SpecResolve == InitResolve /\ [][NextResolve]_vars

(***************************************************************************)
(* Specification SpecKeyword: the command of opcode 64 applied to a stream *)
(* that holds its operand byte, or nothing.                                *)
(***************************************************************************)
InitKeyword ==
    /\ \E raw \in {<<>>} \cup {<<index>> : index \in 0..255} :
          keyword = keyword_start(raw)
    /\ Idle("keyword")

\* The dispatcher has read opcode 64 and calls _com_keyword(stream).
KeywordCommand ==
    /\ keyword.pc = "call"
    /\ keyword' = [keyword EXCEPT
                      !.pc = "called",
                      !.result = gfx_command(64, keyword.raw, 0)]
    /\ UNCHANGED notKeyword

NextKeyword == KeywordCommand

SpecKeyword == InitKeyword /\ [][NextKeyword]_vars

(***************************************************************************)
(* Specification SpecHtmlPath: get_html_path applied to relative paths     *)
(* put together from pieces of file names.                                 *)
(***************************************************************************)
PathPieces ==
    {Lit(<<"a">>), Lit(<<"/">>), Lit(<<".", "s", "a", "b">>),
     Lit(<<".", "~">>), Lit(<<"1">>), Lit(<<"~">>), Lit(<<".", "~", "1", "2", "~">>)}

InitHtmlPath ==
    /\ \E pieces \in SeqsUpTo(PathPieces, MaxPathPieces) :
          htmlpath = htmlpath_start(Flatten(pieces))
    /\ Idle("htmlpath")

HtmlPath ==
    /\ htmlpath.pc = "call"
    /\ htmlpath' = [htmlpath EXCEPT !.pc = "returned",
                                    !.out = get_html_path(htmlpath.relpath)]
    /\ UNCHANGED notHtmlpath

NextHtmlPath == HtmlPath

SpecHtmlPath == InitHtmlPath /\ [][NextHtmlPath]_vars

(***************************************************************************)
(* Specification SpecPicture: _render_content_list renders the items of a  *)
(* processed content list, strings and pictures, one item at a time.       *)
(***************************************************************************)
\* Contents of a picture: none; graphics that decode (with and without
\* forms); a wrong format version; a garbage byte; a truncated operation;
\* a str that is graphics, one that latin-1 cannot encode; an integer.
PictureContents ==
    {PyNone, Val("bytes", <<>>), Val("bytes", <<51, 1>>),
     Val("bytes", <<51, 1, 11, 52, 129, 50>>), Val("bytes", <<51, 2>>),
     Val("bytes", <<0>>), Val("bytes", <<11>>), Val("str", <<51, 1>>),
     Val("str", <<945>>), Val("int", 5)}

PictureItems ==
    {Val("str", Lit(<<"a">>)), Val("str", Lit(<<"b">>))}
    \cup {Val("SagePicture", <<PyNone, PyNone, Val("str", Lit(<<"p">>)),
                               contents>>) : contents \in PictureContents}

InitPicture ==
    /\ \E processed \in SeqsUpTo(PictureItems, MaxContents) :
          picture = picture_start(processed)
    /\ Idle("picture")

\* One item has been rendered, or its rendering raised.
PictureRendered(part) ==
    picture' = IF part.ok
               THEN [picture EXCEPT
                        !.i = @ + 1,
                        !.parts = Append(@, part.val),
                        !.pc = IF picture.i = Len(picture.processed)
                               THEN "returned" ELSE @]
               ELSE [picture EXCEPT !.pc = "raised", !.err = part.err]

\* One iteration of the list comprehension of _render_content_list.
PictureRender ==
    /\ picture.pc = "loop" /\ picture.i <= Len(picture.processed)
    /\ \E svg \in {StreamOk("svg", 0), StreamRaise(0, "KeyError")} :
          PictureRendered(_render_sage(picture.processed[picture.i], svg))
    /\ UNCHANGED notPicture

\* The list is empty: nothing to render.
PictureNone ==
    /\ picture.pc = "loop" /\ picture.processed = <<>>
    /\ picture' = [picture EXCEPT !.pc = "returned"]
    /\ UNCHANGED notPicture

NextPicture == PictureRender \/ PictureNone

SpecPicture == InitPicture /\ [][NextPicture]_vars

(***************************************************************************)
(* Specification SpecField: read_sab_thing applied to the bytes of one     *)
(* field-alist (code 3) or index-item (code 30).  field.fields tells how   *)
(* the bytes were put together: for each field the thing that names it,    *)
(* the code byte of its value and the value that follows the code byte.    *)
(***************************************************************************)
\* Field names: a symbol of the table, one in other case, one that is a
\* string and not a symbol, and one that is not in the table.
FieldNames ==
    {[name |-> <<"u","n","i","q","u","e","-","i","n","d","e","x">>, code |-> 16],
     [name |-> <<"P","a","t","c","h","e","d","-","F","r","o","m">>, code |-> 16],
     [name |-> <<"f","l","a","g","s">>, code |-> 11],
     [name |-> <<"f","l","a","g">>, code |-> 16]}

\* Values: the fixnum 7 (code 10) and the string "x" (code 11).
FieldValues ==
    {[code |-> 10, bytes |-> U32(7), val |-> Val("int", 7)],
     [code |-> 11, bytes |-> <<1, Ord("x")>>, val |-> Val("str", Lit(<<"x">>))]}

FieldParts == {[n |-> n, v |-> v] : n \in FieldNames, v \in FieldValues}

\* The bytes of one field: code 4, the name, the value.
FieldBytes(part) ==
    (IF part.n.code = 16 THEN <<4>> \o Def(part.n.name)
     ELSE <<4>> \o Str(part.n.name))
        \o <<part.v.code>> \o part.v.bytes

RECURSIVE FieldsBytes(_)
FieldsBytes(parts) ==
    IF parts = <<>> THEN <<>>
    ELSE FieldBytes(Head(parts)) \o FieldsBytes(Tail(parts))

InitField ==
    /\ \E parts \in SeqsUpTo(FieldParts, MaxFields) :
          \E head \in {<<3>>, <<30>> \o Str(<<"t">>) \o <<1>> \o Def(<<"s">>)} :
              field = field_start(parts, head \o U16(Len(parts))
                                              \o FieldsBytes(parts))
    /\ Idle("field")

\* read_sab_thing(stream, table) on the bytes.
FieldRead ==
    /\ field.pc = "call"
    /\ field' = [field EXCEPT
                    !.pc = "read",
                    !.result = read_sab_thing(field.data, 0, SymbolTable, -1)]
    /\ UNCHANGED notField

NextField == FieldRead

SpecField == InitField /\ [][NextField]_vars

(***************************************************************************)
(* Specification SpecSymbol: read_sab_thing reads the things of one        *)
(* section, one thing at a time, with the section's symbol table.          *)
(* symdef.things tells how the bytes were put together: the code of each   *)
(* thing, the package and name of a definition, the index of a reference.  *)
(***************************************************************************)
\* The five symbol definitions of the name "Ab" (code 17 in the packages
\* "ab" and "AB"), references to the first two symbols and a string.
SymbolThings ==
    {[code |-> c, pkg |-> <<>>, name |-> <<"A", "b">>, index |-> 0] :
        c \in {15, 16, 18, 32}}
    \cup {[code |-> 17, pkg |-> p, name |-> <<"A", "b">>, index |-> 0] :
             p \in {<<"a", "b">>, <<"A", "B">>}}
    \cup {[code |-> 14, pkg |-> <<>>, name |-> <<>>, index |-> i] : i \in {0, 1}}
    \cup {[code |-> 11, pkg |-> <<>>, name |-> <<"A", "b">>, index |-> 0]}

ThingBytes(thing) ==
    CASE thing.code = 14 -> Ref(thing.index)
      [] thing.code = 11 -> Str(thing.name)
      [] thing.code = 17 -> <<17>> \o Str(thing.pkg) \o Str(thing.name)
      [] OTHER -> <<thing.code>> \o Str(thing.name)

RECURSIVE ThingsBytes(_)
ThingsBytes(things) ==
    IF things = <<>> THEN <<>>
    ELSE ThingBytes(Head(things)) \o ThingsBytes(Tail(things))

InitSymbol ==
    /\ \E things \in SeqsUpTo(SymbolThings, MaxThings) :
          symdef = symdef_start(things, ThingsBytes(things))
    /\ Idle("symdef")

\* read_sab_thing has returned or raised.
SymbolThingRead(r) ==
    symdef' = [symdef EXCEPT
                  !.pc = IF ~r.ok THEN "raised"
                         ELSE IF symdef.n + 1 = Len(symdef.things) THEN "done"
                         ELSE @,
                  !.offset = r.off,
                  !.table = r.tbl,
                  !.n = @ + 1,
                  !.val = r.val,
                  !.before = symdef.table.symbols]

SymbolRead ==
    /\ symdef.pc = "loop" /\ symdef.n < Len(symdef.things)
    /\ SymbolThingRead(read_sab_thing(symdef.data, symdef.offset,
                                      symdef.table, -1))
    /\ UNCHANGED notSymdef

NextSymbol == SymbolRead

SpecSymbol == InitSymbol /\ [][NextSymbol]_vars

(***************************************************************************)
(* Specification SpecFat: read_sab_thing applied to the bytes of one fat   *)
(* string (code 34).  fat.parts tells how the bytes were put together:     *)
(* dims[0], the kind of font section and the chunks of the payload.        *)
(***************************************************************************)
\* Font sections after one font specification byte: well-formed ones of
\* type 0x0C and 0x14 (with 0x10 and with a second style), an unknown type
\* code, a missing 0x10 after either type, and a missing trailing 0x00.
FatFonts ==
    {[kind |-> "ok", bytes |-> <<12, 0, 1, 65, 16, 1, 70, 0>>],
     [kind |-> "ok", bytes |-> <<20, 1, 65, 16, 0, 0>>],
     [kind |-> "ok", bytes |-> <<20, 0, 20, 1, 65, 0, 0>>],
     [kind |-> "type", bytes |-> <<13, 0, 0, 16, 0, 0>>],
     [kind |-> "0x10", bytes |-> <<12, 0, 0, 17, 0, 0>>],
     [kind |-> "0x10", bytes |-> <<20, 0, 17, 0, 0>>],
     [kind |-> "0x00", bytes |-> <<12, 0, 0, 16, 0, 1>>]}

\* The bytes before the payload: no dimensions, dims[0] alone, dims with
\* dims[1] = 0, and dims with dims[1] = 1 and a font section.
FatHeads ==
    {[total_len |-> 0, kind |-> "none", bytes |-> <<0>>]}
    \cup {[total_len |-> n, kind |-> "none", bytes |-> <<1, n>>] : n \in 0..2}
    \cup {[total_len |-> n, kind |-> "none", bytes |-> <<2, n, 0>>] : n \in 1..2}
    \cup {[total_len |-> n, kind |-> font.kind,
           bytes |-> <<2, n, 1, 9>> \o font.bytes] :
             n \in 1..2, font \in FatFonts}

\* Chunks: chunk-len, one byte that is discarded, the characters.  The
\* last one announces two characters and holds one.
FatChunks == {<<0, 7>>, <<1, 7, 97>>, <<2, 7, 97, 98>>, <<2, 7, 97>>}

InitFat ==
    /\ \E head \in FatHeads, chunks \in SeqsUpTo(FatChunks, MaxChunks) :
          fat = fat_start([total_len |-> head.total_len, kind |-> head.kind,
                           chunks |-> chunks],
                          <<34>> \o head.bytes \o Flatten(chunks))
    /\ Idle("fat")

\* read_sab_thing(stream, table) on the bytes.
FatRead ==
    /\ fat.pc = "call"
    /\ fat' = [fat EXCEPT
                  !.pc = "read",
                  !.result = read_sab_thing(fat.data, 0, SymbolTable, -1)]
    /\ UNCHANGED notFat

NextFat == FatRead

SpecFat == InitFat /\ [][NextFat]_vars

(***************************************************************************)
(* Specification SpecTakeTwo: read_sab_thing applied to the bytes of one   *)
(* extensible-reference-take-two (code 44).  takeTwo.kinds tells what each *)
(* of the seven things is: the symbol lisp:nil, a string that is the       *)
(* letter of its position, or the empty list.                              *)
(***************************************************************************)
TakeTwoLetters == <<"a", "b", "c", "d", "e", "f", "g">>

TakeTwoBytes(kind, k) ==
    CASE kind = "nil" -> <<17>> \o Str(<<"l", "i", "s", "p">>)
                                \o Str(<<"n", "i", "l">>)
      [] kind = "str" -> Str(<<TakeTwoLetters[k]>>)
      [] kind = "list" -> <<13>> \o U16(0)

\* The value of a thing as read_sab_thing decodes it.
TakeTwoValue(kind, k) ==
    CASE kind = "nil" -> Val("str", Lit(<<"l","i","s","p",":","n","i","l">>))
      [] kind = "str" -> Val("str", Lit(<<TakeTwoLetters[k]>>))
      [] kind = "list" -> Val("list", <<>>)

InitTakeTwo ==
    /\ \E kinds \in [1..7 -> {"nil", "str", "list"}] :
          takeTwo = take_two_start(kinds,
                        <<44>> \o TakeTwoBytes(kinds[1], 1)
                               \o <<1>> \o TakeTwoBytes(kinds[2], 2)
                               \o Flatten([k \in 1..5 |->
                                              TakeTwoBytes(kinds[k + 2], k + 2)]))
    /\ Idle("takeTwo")

\* read_sab_thing(stream, table) on the bytes.
TakeTwoRead ==
    /\ takeTwo.pc = "call"
    /\ takeTwo' = [takeTwo EXCEPT
                      !.pc = "read",
                      !.result = read_sab_thing(takeTwo.data, 0, SymbolTable, -1)]
    /\ UNCHANGED notTakeTwo

NextTakeTwo == TakeTwoRead

SpecTakeTwo == InitTakeTwo /\ [][NextTakeTwo]_vars

(***************************************************************************)
(* Specification SpecCallee: RecordRegistry.scan_file applied to one file  *)
(* whose index holds the items callee.items.  An item tells its unique-id  *)
(* ("" when it has none), its unique-index (0 when it has none) and its    *)
(* callee-list: none, an empty one, or one 4-tuple whose topic is the      *)
(* letter of the item's position.                                          *)
(***************************************************************************)
CalleeLetters == <<"a", "b", "c">>

CalleeItems ==
    [uid : {<<>>, <<"u">>, <<"v">>}, ix : {0, 7},
     list : {"none", "empty", "four"}]

\* The bytes of the item at position k of the index.
CalleeItemBytes(item, k) ==
    LET fields ==
            (IF item.uid = <<>> THEN <<>>
             ELSE <<Field(<<"u","n","i","q","u","e","-","i","d">>, 35,
                          Str(item.uid))>>)
            \o (IF item.ix = 0 THEN <<>>
                ELSE <<Field(<<"u","n","i","q","u","e","-","i","n","d","e","x">>,
                             10, U32(item.ix))>>)
            \o (CASE item.list = "none" -> <<>>
                  [] item.list = "empty" ->
                        <<Field(<<"c","a","l","l","e","e","-","l","i","s","t">>,
                                39, U16(0))>>
                  [] item.list = "four" ->
                        <<Field(<<"c","a","l","l","e","e","-","l","i","s","t">>,
                                39, U16(1) \o Str(<<CalleeLetters[k]>>)
                                           \o <<1>> \o Def(<<"k">>)
                                           \o Str(<<"h">>) \o Str(<<"w">>))>>)
    IN  <<30>> \o Str(<<"t">>) \o <<1>> \o Def(<<"s">>)
            \o U16(Len(fields)) \o Flatten(fields)

\* The callees scan_file is to store for the item at position k.
CalleeTuples(k) ==
    <<Val("tuple", <<Val("str", Lit(<<CalleeLetters[k]>>)),
                     Val("str", Lit(<<"k">>)), Val("str", Lit(<<"h">>)),
                     Val("str", Lit(<<"w">>))>>)>>

InitCallee ==
    /\ \E n \in 1..MaxItems : \E items \in [1..n -> CalleeItems] :
          callee = callee_start(items,
                       SabFile(0, 7, <<31, 13>> \o U16(0), <<>>,
                               <<28>> \o U32(n)
                                   \o Flatten([k \in 1..n |->
                                                 CalleeItemBytes(items[k], k)]),
                               "normal"))
    /\ Idle("callee")

\* registry.scan_file(filepath, base_dir) on the file.
CalleeScanned(scanned) ==
    callee' = [callee EXCEPT !.pc = "scanned", !.ok = scanned.ok,
                             !.reg = scanned.reg]

CalleeScan ==
    /\ callee.pc = "call"
    /\ CalleeScanned(scan_file(RecordRegistry,
                               os_path_join(sab_dir, Lit(<<"a", ".", "s", "a", "b">>)),
                               sab_dir, callee.data))
    /\ UNCHANGED notCallee

NextCallee == CalleeScan

SpecCallee == InitCallee /\ [][NextCallee]_vars

(***************************************************************************)
(* Specification SpecNextValue: _next_value applied at offset 0 of a       *)
(* stream made of pieces: %com-end, a format version (for effect), the     *)
(* small integer 1, the form commands set-position and                     *)
(* scan-conversion-mode, and a byte that is no command.                    *)
(***************************************************************************)
NextValuePieces == {<<50>>, <<51, 1>>, <<52, 129>>, <<67>>, <<74>>, <<0>>}

\* The pieces left after the leading for-effect commands.
RECURSIVE AfterEffects(_)
AfterEffects(pieces) ==
    IF pieces # <<>> /\ Head(pieces) = <<51, 1>>
    THEN AfterEffects(Tail(pieces))
    ELSE pieces

InitNextValue ==
    /\ \E pieces \in SeqsUpTo(NextValuePieces, MaxValuePieces) :
          nextValue = next_value_start(pieces)
    /\ Idle("nextValue")

\* _next_value(stream)
NextValueRead ==
    /\ nextValue.pc = "call"
    /\ nextValue' = [nextValue EXCEPT
                        !.pc = "read",
                        !.result = _next_value(nextValue.raw, 0)]
    /\ UNCHANGED notNextValue

NextNextValue == NextValueRead

SpecNextValue == InitNextValue /\ [][NextNextValue]_vars

(***************************************************************************)
(* Specification SpecRaster: _next_value applied to one %com-raster-image  *)
(* (opcode 23): a byte-size, a width and a height given as small integers, *)
(* then raster.parts.payload bytes, which may be fewer or more than the    *)
(* command needs.                                                          *)
(***************************************************************************)
RasterParts ==
    [byte_size : {1, 8}, width : {4, 8, 16}, height : {1, 2, 8},
     payload : 0..MaxPayload]

\* (width * byte_size // 8) * height
RasterLength(parts) == ((parts.width * parts.byte_size) \div 8) * parts.height

InitRaster ==
    /\ \E parts \in RasterParts :
          raster = raster_start(parts,
                       <<23, parts.byte_size, 52, 128 + parts.width,
                         52, 128 + parts.height>>
                           \o [k \in 1..parts.payload |-> 9])
    /\ Idle("raster")

\* _next_value(stream) reads the command.
RasterRead ==
    /\ raster.pc = "call"
    /\ raster' = [raster EXCEPT !.pc = "read",
                                !.result = _next_value(raster.raw, 0)]
    /\ UNCHANGED notRaster

NextRaster == RasterRead

SpecRaster == InitRaster /\ [][NextRaster]_vars

(***************************************************************************)
(* Specification SpecSvg: render_picture_to_svg applied to a list of       *)
(* forms: two graphics-transforms, one primitive of each kind, and         *)
(* scan-conversion-modes whose output forms hold a transform and a line,   *)
(* or a polyline.  The raster of the image is one the PNG conversion       *)
(* accepts (16 by 8 bits in 16 bytes).                                     *)
(***************************************************************************)
SvgTransforms ==
    {Val("OpGraphicsTransform", <<1, 0, 0, 1, 3, 4>>),
     Val("OpGraphicsTransform", <<2, 0, 0, 2, 10, 20>>)}

SvgPrimitives ==
    {Val("OpPoint", <<6, 7, <<>>>>),
     Val("OpLine", <<1, 2, 5, 6, <<>>>>),
     Val("OpLines", <<<<7, 8, 9, 1>>, <<>>>>),
     Val("OpRectangle", <<1, 5, 4, 2, <<>>>>),
     Val("OpTriangle", <<1, 1, 6, 1, 3, 7, <<>>>>),
     Val("OpPolygon", <<<<8, 1, 9, 9, 2, 3>>, <<>>>>),
     Val("OpEllipse", <<5, 5, 2, 3, <<>>>>),
     Val("OpBezierCurve", <<1, 1, 9, 9, 2, 8, 8, 2, <<>>>>),
     Val("OpCubicSpline", <<<<1, 1, 2, 8, 8, 2, 9, 9>>, <<>>>>),
     Val("OpPath", <<<<Val("OpSetCurrentPosition", <<1, 1, <<>>>>),
                       Val("OpLineTo", <<8, 9, <<>>>>),
                       Val("OpClosePath", <<<<>>>>)>>, <<>>>>),
     Val("OpString", <<Lit(<<"a", "b">>), 2, 3, <<>>>>),
     Val("OpImage", <<Val("OpRasterImage",
                         <<1, 16, 8, [k \in 1..16 |-> 0]>>), 3, 4, <<>>>>)}

SvgForms ==
    SvgTransforms \cup SvgPrimitives
    \cup {Val("OpScanConversionMode",
              <<<<Val("OpGraphicsTransform", <<1, 0, 0, 1, 50, 60>>),
                  Val("OpLine", <<1, 2, 5, 6, <<>>>>)>>, <<>>>>),
          Val("OpScanConversionMode",
              <<<<Val("OpLines", <<<<7, 8, 9, 1>>, <<>>>>)>>, <<>>>>)}

InitSvg ==
    /\ \E ops \in SeqsUpTo(SvgForms, MaxForms) : drawing = svg_start(ops)
    /\ Idle("drawing")

\* render_picture_to_svg(ops)
SvgRender ==
    /\ drawing.pc = "call"
    /\ drawing' = [drawing EXCEPT !.pc = "rendered",
                                  !.out = render_picture_to_svg(drawing.ops)]
    /\ UNCHANGED notDrawing

NextSvg == SvgRender

SpecSvg == InitSvg /\ [][NextSvg]_vars

(***************************************************************************)
(* Specification SpecPage: render_records_to_html applied to records (a    *)
(* SageRecord or a value that is none) and an index: None, or a list of    *)
(* items that have no callee-list, a callee-list of one 4-tuple whose      *)
(* unique-id is x or y, or that are no index item at all.                  *)
(***************************************************************************)
PageRecords ==
    {Val("SageRecord", <<Val("str", Lit(<<"t">>)), Val("str", Lit(<<"s">>)),
                         Val("list", <<>>)>>),
     Val("str", Lit(<<"t">>))}

\* An index item of topic t and type s with the given fields.
PageItem(fields) ==
    Val("tuple", <<Val("str", Lit(<<"t">>)), Val("str", Lit(<<"s">>)),
                   Val("list", fields)>>)

\* A callee-list field of one callee (c, k, h, uid).
PageCallees(uid) ==
    Val("tuple",
        <<Val("str", Lit(<<"c","a","l","l","e","e","-","l","i","s","t">>)),
          Val("list", <<Val("tuple", <<Val("str", Lit(<<"c">>)),
                                       Val("str", Lit(<<"k">>)),
                                       Val("str", Lit(<<"h">>)),
                                       Val("str", Lit(<<uid>>))>>)>>)>>)

PageItems ==
    {PageItem(<<>>), PageItem(<<PageCallees("x")>>),
     PageItem(<<PageCallees("y")>>), Val("str", Lit(<<"t">>))}

InitPage ==
    /\ \E records \in SeqsUpTo(PageRecords, MaxPageRecords),
          index \in {PyNone} \cup {Val("list", items) :
                                     items \in SeqsUpTo(PageItems, MaxIndexItems)} :
          assoc = page_start(records, index)
    /\ Idle("assoc")

\* render_records_to_html(records, index)
PageRender ==
    /\ assoc.pc = "call"
    /\ assoc' = [assoc EXCEPT
                    !.pc = "rendered",
                    !.out = render_records_to_html(assoc.records, assoc.index)]
    /\ UNCHANGED notAssoc

NextPage == PageRender

SpecPage == InitPage /\ [][NextPage]_vars

\* The values of the field `name` over the items of an index.
IndexFieldValues(index, name) ==
    LET fields(i) == Payload(Payload(Payload(index)[i])[3])
    IN  UNION {{Payload(fields(i)[j])[2] :
                   j \in {j \in DOMAIN fields(i) :
                             Payload(fields(i)[j])[1] = Val("str", name)}} :
               i \in DOMAIN Payload(index)}

\* The symbols defined in a section's trace before position p.
DefinedBefore(trace, p) ==
    SelectSeq(SubSeq(trace, 1, p - 1), LAMBDA ev : ev.e = "def")

\* Within one section: the k-th definition gets index k (counting from 0),
\* a reference to index i yields the i-th symbol defined earlier in this
\* section, and a reference to an index not yet defined in this section
\* fails and ends the section.
SectionScoped(sec) ==
    \A p \in DOMAIN sec.trace :
        LET ev == sec.trace[p]
            defs == DefinedBefore(sec.trace, p)
        IN  IF ev.e = "def" THEN ev.i = Len(defs)
            ELSE IF ev.i < Len(defs)
                 THEN ev.ok /\ ev.s = defs[ev.i + 1].s
                 ELSE ~ev.ok /\ ~sec.ok /\ p = Len(sec.trace)

\* C3: in read_sab the file-attribute section, each record and the index
\* section are each decoded with a symbol table that is empty at the start
\* of the section: a symbol-ref with index i resolves to the i-th symbol
\* defined earlier within the same section, never to a symbol of another
\* section, and an index not yet defined in the current section fails.
C3_SymbolScopePerSection ==
    \A k \in DOMAIN reader["read_sab"].sections :
        SectionScoped(reader["read_sab"].sections[k])

\* read_sab has decoded a section whose reference to index i got that
\* section's own symbol although an earlier section had defined a different
\* symbol at index i, and a section that failed on a reference to an index
\* that only an earlier section had defined.
C3_Witness ==
    LET secs == reader["read_sab"].sections
        Defines(j, i, sym) ==
            \E p \in DOMAIN secs[j].trace :
                /\ secs[j].trace[p].e = "def"
                /\ secs[j].trace[p].i = i
                /\ secs[j].trace[p].s = sym
    IN  /\ \E j, k \in DOMAIN secs :
            /\ j < k
            /\ \E q \in DOMAIN secs[k].trace :
                /\ secs[k].trace[q].e = "ref" /\ secs[k].trace[q].ok
                /\ Defines(k, secs[k].trace[q].i, secs[k].trace[q].s)
                /\ ~Defines(j, secs[k].trace[q].i, secs[k].trace[q].s)
                /\ \E sym \in {Lit(<<"a">>)} :
                       Defines(j, secs[k].trace[q].i, sym)
        /\ \E j, k \in DOMAIN secs :
            /\ j < k
            /\ ~secs[k].ok
            /\ \E q \in DOMAIN secs[k].trace :
                /\ secs[k].trace[q].e = "ref" /\ ~secs[k].trace[q].ok
                /\ \E sym \in {Lit(<<"a">>), Lit(<<"b">>), Lit(<<"c">>)} :
                       Defines(j, secs[k].trace[q].i, sym)

C10_HeaderValidatedFirst ==
    \A fn \in SabFunctions :
        LET run == reader[fn]
        IN  run.pc # "header" =>
              /\ (Len(file) >= 4 /\ SubSeq(file, 1, 4) # <<0, 0, 0, 0>>)
                     => /\ run.pc = "failed"
                        /\ run.err \in
                               {"ValueError: Not a SAB file (bad id pattern): ",
                                "ValueError: Not a SAB file: "}
                        /\ run.sections = <<>> /\ run.offset = 4
              /\ (Len(file) >= 5 /\ SubSeq(file, 1, 4) = <<0, 0, 0, 0>>
                                 /\ file[5] # 7)
                     => /\ run.pc = "failed"
                        /\ run.err \in
                               {"ValueError: Incompatible SAB version ",
                                "ValueError: Incompatible SAB version: "}
                        /\ run.sections = <<>> /\ run.offset = 5

\* Both functions have rejected a complete file (attributes, pointers and
\* index present) for its id pattern, its version being wrong as well.
C10_Witness ==
    /\ Len(file) > 13 /\ file[1] = 1 /\ file[5] = 5
    /\ \A fn \in SabFunctions :
          /\ reader[fn].pc = "failed"
          /\ reader[fn].sections = <<>>
          /\ reader[fn].offset = 4


\* A lookup that returned an entry: no exception and not None.
Resolved(result) == result.ok /\ result.val # PyNone

\* Every unique-id and every unique-index of the index a scan decoded,
\* None apart, resolves in the registry.
IndexResolves(read) ==
    read.pc = "done" =>
        \A name \in {Lit(<<"u","n","i","q","u","e","-","i","d">>),
                     Lit(<<"u","n","i","q","u","e","-","i","n","d","e","x">>)} :
            \A value \in IndexFieldValues(read.index, name) \ {PyNone} :
                Resolved(resolve_reference(registry, value, PyNone))

\* C5: once pass 1 (scan_all) has returned, every unique-id value and every
\* unique-index value that appears in an index item of a scanned file
\* resolves to a non-None entry through resolve_reference.
C5_EveryIdResolves ==
    site.pc \in {"pass2", "done"} =>
        \A path \in selected(DOMAIN dir) :
            IndexResolves(read_sab_index_only(dir[path]))

\* C6: every page written in pass 2 is written at get_html_path of the
\* relative path of its SAB file (under the output directory), and two
\* distinct SAB files never write to the same output path.
C6_OutputPathsDisjoint ==
    /\ \A i \in DOMAIN output.log :
          output.log[i].path
              = os_path_join(output_dir, get_html_path(output.log[i].source))
    /\ \A i, j \in DOMAIN output.log :
          output.log[i].source # output.log[j].source
              => output.log[i].path # output.log[j].path


\* C7: the result of _slugify is not empty, is made of [a-z0-9-] only, does
\* not begin or end with '-' and holds no '--'; a name with no character of
\* [a-z0-9] after lower-casing gives 'section'; and _slugify of a result
\* is that result.
C7_SlugShapeAndIdempotence ==
    /\ slug.pc # "name" =>
          /\ slug.out # <<>>
          /\ \A i \in DOMAIN slug.out :
                slug_char(slug.out[i]) \/ slug.out[i] = 45
          /\ slug.out[1] # 45 /\ slug.out[Len(slug.out)] # 45
          /\ \A i \in 1..(Len(slug.out) - 1) :
                ~(slug.out[i] = 45 /\ slug.out[i + 1] = 45)
          /\ (\A i \in DOMAIN slug.name : ~slug_char(Lower(slug.name)[i]))
                => slug.out = Lit(<<"s", "e", "c", "t", "i", "o", "n">>)
    /\ slug.pc = "slug of slug" => slug.again = slug.out

\* 'A -b' gave 'a-b', and 'a-b' gave itself.
C7_Witness ==
    /\ slug.pc = "slug of slug"
    /\ slug.name = <<65, 32, 45, 98>>
    /\ slug.out = Lit(<<"a", "-", "b">>)


\* C8: whenever binary_decode_graphics returns, the stream cursor equals the
\* length of the data: all of it was consumed and nothing beyond it.
C8_DecoderConsumesAll ==
    gfx.pc = "returned" => gfx.offset = Len(gfx.raw)


\* el is a nex-paragraph environment.
is_nex_paragraph(el) ==
    /\ TypeOf(el) = "SageEnvr"
    /\ Payload(el)[1] = Val("str", Lit(<<"n", "e", "x", "-", "p", "a", "r",
                                         "a", "g", "r", "a", "p", "h">>))

\* The items of an environment's contents_list.
contents_of(el) == Payload(Payload(el)[3])

\* C9: in the result of _fix_up_special_markup no nex-paragraph environment
\* holds a block-level environment, and every block-level environment of
\* the list given is an item (a top-level sibling) of the result.
C9_BlocksOutsideParagraphs ==
    markup.pc = "done" =>
        /\ \A i \in DOMAIN markup.out :
              is_nex_paragraph(markup.out[i]) =>
                 \A j \in DOMAIN contents_of(markup.out[i]) :
                    ~_is_block_envr(contents_of(markup.out[i])[j])
        /\ \A i \in DOMAIN markup.lst :
              _is_block_envr(markup.lst[i]) =>
                 \E j \in DOMAIN markup.out : markup.out[j] = markup.lst[i]


\* The number of characters of out after its last line-break or
\* paragraph-break sentinel (all of out when it has none).
ColumnOf(out) ==
    LET breaks == {k \in DOMAIN out :
                      out[k] \in {LINE_BREAK_MARKER, PARAGRAPH_MARKER}}
    IN  Len(out) - (IF breaks = {} THEN 0
                    ELSE CHOOSE k \in breaks : \A j \in breaks : j <= k)

\* C11: in _recode_and_expand the column is the number of output characters
\* since the last line-break or paragraph-break sentinel (0 right after
\* one); a tab 0x89 appends 1..8 spaces that bring the column to the next
\* multiple of 8; a dropped C1 character appends nothing and leaves the
\* column; and "x\x02y\x8d\x8dz\x89q" gives x, alpha, y, U+E000, z, seven
\* spaces, q.
C11_TabsReachNextStop ==
    /\ recode.col = ColumnOf(recode.out)
    /\ recode.last.code = 137 =>
          /\ Len(recode.last.out) \in 1..8
          /\ \A k \in DOMAIN recode.last.out : recode.last.out[k] = 32
          /\ recode.col = recode.last.col + Len(recode.last.out)
          /\ recode.col % 8 = 0
    /\ recode.last.code \in (127..159) \ {137} =>
          recode.last.out = <<>> /\ recode.col = recode.last.col
    /\ recode.last.code \in {LINE_BREAK_MARKER, PARAGRAPH_MARKER} =>
          recode.col = 0
    /\ (recode.pc = "done" /\ recode.text = RecodeExample) =>
          recode.out = <<120, 945, 121, PARAGRAPH_MARKER, 122,
                         32, 32, 32, 32, 32, 32, 32, 113>>

\* The example text has been recoded, its tab just expanded from column 1.
C11_Witness ==
    /\ recode.text = RecodeExample
    /\ recode.last.code = 137 /\ recode.last.col = 1
    /\ Len(recode.last.out) = 7

\* The entry the reference (unique_id, topic) has when the three lookups
\* are tried in order and the topic name is tried exact, then upper-cased,
\* then lower-cased: the first hit, or None.
by_name_entry(reg, name) ==
    Val("tuple", <<reg.by_name[name][1], name, reg.by_name[name][3]>>)

first_hit(reg, unique_id, topic) ==
    IF unique_id \in DOMAIN reg.by_id
    THEN Val("tuple", reg.by_id[unique_id])
    ELSE IF TypeOf(unique_id) = "int" /\ unique_id \in DOMAIN reg.by_index
    THEN Val("tuple", reg.by_index[unique_id])
    ELSE IF topic = PyNone THEN PyNone
    ELSE IF topic \in DOMAIN reg.by_name THEN by_name_entry(reg, topic)
    ELSE IF Val("str", Upper(Payload(topic))) \in DOMAIN reg.by_name
    THEN by_name_entry(reg, Val("str", Upper(Payload(topic))))
    ELSE IF Val("str", Lower(Payload(topic))) \in DOMAIN reg.by_name
    THEN by_name_entry(reg, Val("str", Lower(Payload(topic))))
    ELSE PyNone

\* C12: a reference resolves to the first hit of: unique_id in by_id;
\* an integer unique_id in by_index; the topic name in by_name, tried exact,
\* then upper-cased, then lower-cased.  Its href is '#' only when all of
\* these miss.
C12_ResolutionOrder ==
    resolve.pc = "resolved" =>
        resolve.href = href_of([ok |-> TRUE,
                                val |-> first_hit(resolve.reg,
                                                  resolve.unique_id,
                                                  resolve.topic)],
                               resolve.current_file)

\* C13: in pass 2 every iteration counts its file once, as converted or as
\* failed, and goes on to the next file whichever it was: the files
\* attempted so far are the first i - 1 of sab_files, which lists every
\* selected file once, each converted file was written, and at the end
\* ok + fail is the number of selected files.
C13_PerFileIsolation ==
    site.pc \in {"pass2", "done"} =>
        /\ site.ok + site.fail = site.i - 1
        /\ site.ok = Len(output.log)
        /\ Len(site.sab_files) = Cardinality(selected(DOMAIN dir))
        /\ \A i, j \in DOMAIN site.sab_files :
               site.sab_files[i] = site.sab_files[j] => i = j
        /\ \A path \in selected(DOMAIN dir) :
               \E i \in DOMAIN site.sab_files :
                   site.sab_files[i] = os_path_join(sab_dir, path)
        /\ site.pc = "pass2" => site.i \in DOMAIN site.sab_files
        /\ site.pc = "done" => site.ok + site.fail = Len(site.sab_files)

\* The first file failed, the second was converted and written.
C13_Witness ==
    /\ site.pc = "done"
    /\ Len(site.sab_files) = 2
    /\ site.fail = 1 /\ site.ok = 1
    /\ output.log[1].source = os_path_relpath(site.sab_files[2], sab_dir)

\* C14: the registry changes only in pass 1, before anything is converted;
\* pass 2 begins only when scan_all has scanned every selected file, and
\* no step of pass 2 (read_sab, the rendering with its reference
\* resolution, the writing) changes by_id, by_index, by_name or callees.
C14_RegistryFrozenInPass2 ==
    [][/\ registry' # registry =>
              site.pc = "pass1" /\ site'.i = 1 /\ output.log = <<>>
       /\ (site.pc = "pass1" /\ site'.pc # "pass1") =>
              \/ site'.pc = "crashed"
              \/ site.pending = {} /\ site.file_count
                                        = Cardinality(selected(DOMAIN dir))
       /\ (site'.i # site.i \/ output' # output) =>
              /\ site.pc = "pass2" /\ site.pending = {}
              /\ registry'.by_id = registry.by_id
              /\ registry'.by_index = registry.by_index
              /\ registry'.by_name = registry.by_name
              /\ registry'.callees = registry.callees]_vars

\* Pass 2 wrote a page whose reference the registry resolved.
C14_Witness ==
    /\ site.pc = "done" /\ site.ok = 2
    /\ DOMAIN registry.by_id # {}
    /\ \E path \in DOMAIN output.files :
           Payload(output.files[path])[2] # Lit(<<"#">>)

\* C15: a stream that decodes into forms begins with the format-version
\* command, opcode 51, with operand 1; and a stream that begins with
\* opcode 51 and another operand fails with 'Bad graphics format version'.
C15_FormatVersionFirst ==
    /\ (gfx.pc = "returned" /\ gfx.forms # <<>>) =>
           Len(gfx.raw) >= 2 /\ gfx.raw[1] = 51 /\ gfx.raw[2] = FORMAT_VERSION
    /\ (/\ gfx.pc # "loop" /\ Len(gfx.raw) >= 2
        /\ gfx.raw[1] = 51 /\ gfx.raw[2] # FORMAT_VERSION) =>
           /\ gfx.pc = "raised"
           /\ gfx.err = "ValueError: Bad graphics format version"

\* C16: the keyword table has 95 entries: the command of opcode 64 with an
\* operand byte k in 0..94 returns the k-th keyword as a for-value result,
\* and with an operand outside the table it fails.
C16_KeywordTable ==
    (keyword.pc = "called" /\ keyword.raw # <<>>) =>
        IF keyword.raw[1] \in 0..94
        THEN /\ keyword.result.ok
             /\ keyword.result.val = <<Val("keyword", keyword.raw[1]), "True">>
             /\ keyword.result.off = 1
        ELSE ~keyword.result.ok

\* path ends with a version suffix .~<digits>~ of n digits.
ends_with_version(path, n) ==
    /\ n >= 1 /\ Len(path) >= n + 3
    /\ path[Len(path)] = Ord("~")
    /\ \A k \in (Len(path) - n)..(Len(path) - 1) : path[k] \in 48..57
    /\ path[Len(path) - n - 1] = Ord("~")
    /\ path[Len(path) - n - 2] = Ord(".")

\* path without its trailing version suffix, if it has one.
without_version(path) ==
    IF \E n \in 1..Len(path) : ends_with_version(path, n)
    THEN SubSeq(path, 1, Len(path) - 3
                         - (CHOOSE n \in 1..Len(path) :
                                ends_with_version(path, n)))
    ELSE path

\* path with a terminal .sab replaced by .html.
sab_to_html(path) ==
    IF Len(path) >= 4
       /\ SubSeq(path, Len(path) - 3, Len(path)) = Lit(<<".", "s", "a", "b">>)
    THEN SubSeq(path, 1, Len(path) - 4) \o Lit(<<".", "h", "t", "m", "l">>)
    ELSE path

\* C17: get_html_path removes only a version suffix .~<digits>~ at the very
\* end of the path and then replaces a terminal .sab by .html; the rest of
\* the path is unchanged.
C17_OnlyTrailingVersionStripped ==
    htmlpath.pc = "returned" =>
        htmlpath.out = sab_to_html(without_version(htmlpath.relpath))

\* The error that decoding the contents of a picture raises, or "none".
picture_decode_error(contents) ==
    IF ~py_truthy(contents) THEN "none"
    ELSE picture_try(contents, StreamOk("svg", 0)).err

\* C18: rendering a content list never raises because of a picture: a
\* picture whose bytes do not decode, or whose SVG rendering raises, gives
\* a placeholder div that names the picture and the error, and every other
\* item gives the part it gives without that picture.
C18_PictureFailuresLocal ==
    /\ picture.pc # "raised"
    /\ Len(picture.parts) = picture.i - 1
    /\ \A k \in DOMAIN picture.parts :
          IF TypeOf(picture.processed[k]) = "SagePicture"
          THEN /\ TypeOf(picture.parts[k]) = "picture"
               /\ Payload(picture.parts[k])[1] = Payload(picture.processed[k])[3]
               /\ picture_decode_error(Payload(picture.processed[k])[4]) # "none"
                     => Payload(picture.parts[k])[2]
                           = Val("error", picture_decode_error(
                                             Payload(picture.processed[k])[4]))
               /\ TypeOf(Payload(picture.parts[k])[2])
                     \in {"None", "svg", "error"}
          ELSE picture.parts[k] = Val("text", picture.processed[k])

\* A list was rendered to its end whose first item is a picture with a bad
\* format version and whose second item is a string.
C18_Witness ==
    /\ picture.pc = "returned" /\ Len(picture.processed) = 3
    /\ TypeOf(picture.processed[1]) = "SagePicture"
    /\ Payload(picture.processed[1])[4] = Val("bytes", <<51, 2>>)
    /\ picture.parts[1]
          = Val("picture", <<Val("str", Lit(<<"p">>)),
                 Val("error", "ValueError: Bad graphics format version")>>)
    /\ picture.parts[2] = Val("text", Val("str", Lit(<<"a">>)))

\* The codes the field-name table declares for a name (none or one).
declared_codes(name) ==
    {p[2] : p \in {q \in FIELD_NAME_TO_SAB_CODE : q[1] = Lower(Lit(name))}}

\* The fields of a result: of a field-alist the list itself, of an
\* index-item the third element of the tuple.
fields_of(value) ==
    IF TypeOf(value) = "list" THEN Payload(value)
    ELSE Payload(Payload(value)[3])

\* C19: a field-alist or index-item is returned exactly when every field
\* name is in the field-name table and every value begins with the code
\* the table declares for its name; each returned field is the name with
\* the value decoded under that code.
C19_FieldsDecodedAsDeclared ==
    field.pc = "read" =>
        /\ field.result.ok <=>
              \A k \in DOMAIN field.fields :
                  declared_codes(field.fields[k].n.name)
                      = {field.fields[k].v.code}
        /\ field.result.ok =>
              /\ Len(fields_of(field.result.val)) = Len(field.fields)
              /\ \A k \in DOMAIN field.fields :
                    fields_of(field.result.val)[k]
                        = Val("tuple",
                              <<Val("str", Lower(Lit(field.fields[k].n.name))),
                                field.fields[k].v.val>>)
        /\ ~field.result.ok =>
              field.result.err
                  \in {"ValueError: Not a valid field name",
                       "ValueError: SAB code instead of the required one"}

\* An index-item was returned whose fields are Patched-From, a string, and
\* flags, a fixnum.
C19_Witness ==
    /\ field.pc = "read" /\ field.result.ok
    /\ field.data[1] = 30
    /\ Len(field.fields) = 2
    /\ field.fields[1].n.name[1] = "P" /\ field.fields[1].v.code = 11
    /\ field.fields[2].n.code = 11 /\ field.fields[2].v.code = 10

\* The package prefix of a symbol definition.
prefix_of(thing) ==
    CASE thing.code = 15 -> Lit(<<"u","n","i","n","t","e","r","n","e","d",":">>)
      [] thing.code = 16 -> <<>>
      [] thing.code = 17 -> Lit(thing.pkg) \o Lit(<<":">>)
      [] thing.code = 18 -> Lit(<<"d","o","c",":">>)
      [] thing.code = 32 -> Lit(<<":">>)

\* C20: a symbol definition (codes 15, 16, 17, 18, 32) appends one symbol
\* to the table and returns it; the symbol is the package prefix followed
\* by the name, and is entirely lower-case; no other thing changes the
\* list of symbols.
C20_SymbolDefinitions ==
    symdef.n > 0 =>
        IF symdef.things[symdef.n].code \in {15, 16, 17, 18, 32}
        THEN /\ symdef.pc # "raised"
             /\ Len(symdef.table.symbols) = Len(symdef.before) + 1
             /\ SubSeq(symdef.table.symbols, 1, Len(symdef.before))
                   = symdef.before
             /\ symdef.val
                   = Val("str", symdef.table.symbols[Len(symdef.before) + 1])
             /\ Upper(Payload(symdef.val))
                   = Upper(prefix_of(symdef.things[symdef.n])
                              \o Lit(symdef.things[symdef.n].name))
             /\ Payload(symdef.val) = Lower(Payload(symdef.val))
        ELSE symdef.table.symbols = symdef.before

\* C21: a fat string that is read successfully has exactly dims[0]
\* characters (the characters of the chunks here are recoded to
\* themselves); an unknown type code, a missing 0x10 and a missing
\* trailing 0x00 fail; reading ends with a string or with an error.
C21_FatStringLength ==
    fat.pc = "read" =>
        /\ fat.result.ok =>
              /\ TypeOf(fat.result.val) = "str"
              /\ Len(Payload(fat.result.val)) = fat.parts.total_len
        /\ fat.parts.kind = "type" =>
              fat.result.err = "ValueError: Unknown fat string type code"
        /\ fat.parts.kind = "0x10" =>
              fat.result.err \in {"ValueError: Expected 0x10 in fat string",
                                  "ValueError: Expected 0x10 or 0x14 in fat string"}
        /\ fat.parts.kind = "0x00" =>
              fat.result.err = "ValueError: Expected 0x00 in fat string"
        /\ ~fat.result.ok /\ fat.parts.kind \in {"none", "ok"} =>
              fat.result.err = "IndexError"

\* C22: the reference of opcode 44 holds topic, type, unique-id, view,
\* appearance, booleans and field in the order they were read, and each of
\* them that was the symbol lisp:nil is the empty list.
C22_TakeTwoNilNormalized ==
    takeTwo.pc = "read" =>
        /\ takeTwo.result.ok
        /\ TypeOf(takeTwo.result.val) = "SageReference"
        /\ \A k \in 1..7 :
              Payload(takeTwo.result.val)[k]
                  = IF takeTwo.kinds[k] = "nil" THEN Val("list", <<>>)
                    ELSE TakeTwoValue(takeTwo.kinds[k], k)

\* C23: after scan_file succeeds on a file, for every index item that has a
\* unique-id and a callee-list of 4-tuples (and is the last item of that
\* unique-id), registry.callees[unique-id] is that item's list of (topic,
\* type, called-how, unique-id), whether or not the item has a
\* unique-index; and no key of the callee map is None.
C23_CalleesKeyedByUniqueId ==
    callee.pc = "scanned" /\ callee.ok =>
        /\ \A k \in DOMAIN callee.items :
              /\ callee.items[k].uid # <<>>
              /\ callee.items[k].list = "four"
              /\ \A j \in DOMAIN callee.items :
                    j > k => callee.items[j].uid # callee.items[k].uid
              => /\ Val("str", Lit(callee.items[k].uid))
                        \in DOMAIN callee.reg.callees
                 /\ callee.reg.callees[Val("str", Lit(callee.items[k].uid))]
                        = CalleeTuples(k)
        /\ PyNone \notin DOMAIN callee.reg.callees

\* C24: _next_value skips the for-effect commands and returns the result
\* of the first for-value command (the end sentinel included); it fails on
\* a byte that is no command; and what it returns is never the form of a
\* form-producing command (set-position, transform-matrix,
\* scan-conversion-mode).
C24_NextValueOnlyForValue ==
    nextValue.pc = "read" =>
        /\ AfterEffects(nextValue.pieces) # <<>> =>
              /\ Head(AfterEffects(nextValue.pieces)) = <<50>> =>
                    /\ nextValue.result.ok
                    /\ nextValue.result.val = _END_VALUE
              /\ Head(AfterEffects(nextValue.pieces)) = <<52, 129>> =>
                    /\ nextValue.result.ok
                    /\ nextValue.result.val = Val("int", 1)
              /\ Head(AfterEffects(nextValue.pieces)) = <<0>> =>
                    /\ ~nextValue.result.ok
                    /\ nextValue.result.err
                          = "ValueError: Unknown binary graphics opcode"
        /\ nextValue.result.ok =>
              TypeOf(nextValue.result.val)
                  \notin {"OpSetCurrentPosition", "OpGraphicsTransform",
                          "OpScanConversionMode"}

\* C25: the raster-image command consumes exactly
\* (width * byte-size / 8) * height payload bytes and returns a raster
\* whose data has that length; when fewer bytes remain the decode fails
\* and returns no shorter payload.
C25_RasterPayloadLength ==
    raster.pc = "read" =>
        IF raster.parts.payload >= RasterLength(raster.parts)
        THEN /\ raster.result.ok
             /\ TypeOf(raster.result.val) = "OpRasterImage"
             /\ Len(Payload(Payload(raster.result.val)[4]))
                   = RasterLength(raster.parts)
             /\ raster.result.off = 6 + RasterLength(raster.parts)
        ELSE ~raster.result.ok

\* The transform in force at position k of a form list entered with the
\* transform `start`: the last graphics-transform before k, else start.
TransformAt(ops, k, start) ==
    IF \E j \in 1..(k - 1) : TypeOf(ops[j]) = "OpGraphicsTransform"
    THEN ops[CHOOSE j \in 1..(k - 1) :
                /\ TypeOf(ops[j]) = "OpGraphicsTransform"
                /\ \A i \in (j + 1)..(k - 1) :
                      TypeOf(ops[i]) # "OpGraphicsTransform"]
    ELSE start

\* The elements of a form list when every form from position k on is
\* rendered under the transform in force at its position, the output
\* forms of a scan-conversion-mode being entered with that transform.
RECURSIVE ElementsUnder(_, _, _)
ElementsUnder(ops, k, start) ==
    IF k > Len(ops) THEN <<>>
    ELSE (CASE TypeOf(ops[k]) = "OpGraphicsTransform" -> <<>>
            [] TypeOf(ops[k]) = "OpScanConversionMode" ->
                  <<Val("sub", ElementsUnder(Payload(ops[k])[1], 1,
                                             TransformAt(ops, k, start)))>>
            [] OTHER ->
                  render_form(ops[k], Payload(ops[k]),
                              TransformAt(ops, k, start), BoundingBox).elements)
         \o ElementsUnder(ops, k + 1, start)

\* C26: the walk starts with the identity transform; a graphics-transform
\* replaces the transform (it is not composed with the one before); every
\* later primitive of the list is rendered under the most recent one; the
\* output forms of a scan-conversion-mode start from the transform in
\* force, and a transform among them leaves the enclosing list's alone.
C26_TransformReplaced ==
    drawing.pc = "rendered" =>
        drawing.out.content = ElementsUnder(drawing.ops, 1, IdentityTransform)

\* Two different transforms, then a line that is rendered under the second.
C26_Witness ==
    /\ drawing.pc = "rendered"
    /\ Len(drawing.ops) = 3
    /\ TypeOf(drawing.ops[1]) = "OpGraphicsTransform"
    /\ TypeOf(drawing.ops[2]) = "OpGraphicsTransform"
    /\ drawing.ops[1] # drawing.ops[2]
    /\ TypeOf(drawing.ops[3]) = "OpLine"
    /\ drawing.out.content
          = <<Val("line", <<_fmt(11), _fmt(-22), _fmt(15), _fmt(-26)>>)>>

\* The points of a flat list of coordinates under a transform, y negated.
RECURSIVE PointsOf(_, _)
PointsOf(points, transform) ==
    IF Len(points) < 2 THEN {}
    ELSE {<<svg_tx(transform, points[1]), svg_ty(transform, -points[2])>>}
         \cup PointsOf(Tail(Tail(points)), transform)

\* The control points of a primitive under a transform; f is Payload(op).
\* Those of a path are the positions it sets.
ControlPoints(op, f, transform) ==
    CASE TypeOf(op) \in {"OpPoint", "OpEllipse"} ->
            {<<svg_tx(transform, f[1]), svg_ty(transform, f[2])>>}
      [] TypeOf(op) \in {"OpLine", "OpRectangle"} ->
            PointsOf(<<f[1], f[2], f[3], f[4]>>, transform)
      [] TypeOf(op) = "OpTriangle" ->
            PointsOf(<<f[1], f[2], f[3], f[4], f[5], f[6]>>, transform)
      [] TypeOf(op) = "OpBezierCurve" ->
            PointsOf(<<f[1], f[2], f[3], f[4], f[5], f[6], f[7], f[8]>>,
                     transform)
      [] TypeOf(op) \in {"OpLines", "OpPolygon", "OpCubicSpline"} ->
            PointsOf(f[1], transform)
      [] TypeOf(op) = "OpPath" ->
            UNION {PointsOf(<<Payload(f[1][j])[1], Payload(f[1][j])[2]>>,
                            transform) :
                      j \in {i \in DOMAIN f[1] :
                                TypeOf(f[1][i]) = "OpSetCurrentPosition"}}
      [] TypeOf(op) \in {"OpString", "OpStringImage"} ->
            PointsOf(<<f[2], f[3]>>, transform)
      [] TypeOf(op) = "OpImage" ->
            {<<svg_tx(transform, f[2]), svg_ty(transform, f[3])>>}
      [] OTHER -> {}

\* The control points of the primitives of a form list from position k on,
\* those of the output forms of its scan-conversion-modes included.
RECURSIVE PointsUnder(_, _, _)
PointsUnder(ops, k, start) ==
    IF k > Len(ops) THEN {}
    ELSE (IF TypeOf(ops[k]) = "OpScanConversionMode"
          THEN PointsUnder(Payload(ops[k])[1], 1, TransformAt(ops, k, start))
          ELSE ControlPoints(ops[k], Payload(ops[k]),
                             TransformAt(ops, k, start)))
         \cup PointsUnder(ops, k + 1, start)

\* C27: after a form list is rendered, the bounding box contains the
\* transformed control points of every primitive rendered, of whatever
\* kind, and the width, height and viewBox of the svg element are those of
\* the box.
C27_BoundingBoxContainsAll ==
    drawing.pc = "rendered" =>
        /\ \A p \in PointsUnder(drawing.ops, 1, IdentityTransform) :
              /\ drawing.out.bb[1] <= p[1] /\ p[1] <= drawing.out.bb[3]
              /\ drawing.out.bb[2] <= p[2] /\ p[2] <= drawing.out.bb[4]
        /\ drawing.out.width = _fmt(drawing.out.bb[3] - drawing.out.bb[1])
        /\ drawing.out.height = _fmt(drawing.out.bb[4] - drawing.out.bb[2])
        /\ drawing.out.viewBox
              = <<_fmt(drawing.out.bb[1]), _fmt(drawing.out.bb[2]),
                  _fmt(drawing.out.bb[3] - drawing.out.bb[1]),
                  _fmt(drawing.out.bb[4] - drawing.out.bb[2])>>

\* The section decoded last.
LastSection(secs) == secs[Len(secs)]

\* The record sections among the sections decoded so far.
RecordSections(secs) == {k \in DOMAIN secs : secs[k].kind = "record"}

C29_FailedScanLeavesRegistry ==
    [][\A path \in site.pending \ site'.pending :
          (site.pc = "pass1"
           /\ read_sab_index_only(dir[path]).pc = "failed") =>
              /\ registry' = registry
              /\ site'.pc = "pass1"
              /\ site'.pending = site.pending \ {path}]_vars

\* Pass 1 is over for two files: one that read_sab_index_only rejects for
\* its id pattern, and one whose entries are in the registry.
C29_Witness ==
    /\ site.pc = "pass2" /\ site.file_count = 2
    /\ DOMAIN registry.by_id # {}
    /\ \E bad \in DOMAIN dir :
          /\ dir[bad][1] = 1
          /\ bad \in selected(DOMAIN dir)
          /\ bad \notin DOMAIN registry.file_records
          /\ Cardinality(DOMAIN registry.file_records) = 1

\* The 4-tuples of the callee-list fields of an index item.
CalleesOf(item) ==
    IF TypeOf(item) # "tuple" THEN {}
    ELSE UNION {{Payload(Payload(Payload(item)[3])[f])[2].list[c] :
                   c \in DOMAIN Payload(Payload(Payload(item)[3])[f])[2].list} :
                f \in {g \in DOMAIN Payload(Payload(item)[3]) :
                          Payload(Payload(Payload(item)[3])[g])[1]
                              = Val("str", Lit(<<"c","a","l","l","e","e","-",
                                                 "l","i","s","t">>))}}

\* The callee table of an index item: (type, called-how, topic) under the
\* unique-id of each callee.
TableOf(item) ==
    [uid \in {Payload(c)[4] : c \in CalleesOf(item)} |->
        LET c == CHOOSE c \in CalleesOf(item) : Payload(c)[4] = uid
        IN  <<Payload(c)[2], Payload(c)[3], Payload(c)[1]>>]

\* C30: in render_records_to_html the callee table under which the record
\* at position i is rendered is built from the index item at position i
\* (its 4-tuple callees under their unique-ids); a record at a position
\* beyond the end of the index (or without index) has an empty table; no
\* record gets the callees of an index item at another position.
C30_CalleesByPosition ==
    (assoc.pc = "rendered" /\ assoc.out.ok) =>
        /\ {assoc.out.parts[k].i : k \in DOMAIN assoc.out.parts}
              = {i \in 0..(Len(assoc.records) - 1) :
                    TypeOf(assoc.records[i + 1]) = "SageRecord"}
        /\ \A j, k \in DOMAIN assoc.out.parts :
              j < k => assoc.out.parts[j].i < assoc.out.parts[k].i
        /\ \A k \in DOMAIN assoc.out.parts :
              assoc.out.parts[k].callees
                  = IF assoc.index # PyNone
                       /\ assoc.out.parts[k].i < Len(Payload(assoc.index))
                    THEN TableOf(Payload(assoc.index)[assoc.out.parts[k].i + 1])
                    ELSE <<>>

\* A value that is no record, then two records: the first is rendered
\* under the callees of the second index item, the second, beyond the end
\* of the index, under none.
C30_Witness ==
    /\ assoc.pc = "rendered" /\ assoc.out.ok
    /\ Len(assoc.records) = 3 /\ Len(assoc.out.parts) = 2
    /\ assoc.index
          = Val("list", <<PageItem(<<PageCallees("x")>>),
                          PageItem(<<PageCallees("y")>>)>>)
    /\ assoc.out.parts[1].i = 1
    /\ DOMAIN assoc.out.parts[1].callees = {Val("str", Lit(<<"y">>))}
    /\ assoc.out.parts[2].callees = <<>>
=============================================================================
